---- MODULE Spec2Model ----
(***************************************************************************)
(* Recursive version control system: the snapshot object model, the        *)
(* content-addressed store, the snapshotter (package snapshot), the        *)
(* recursive three-way merge (package merge), and signing and pulling      *)
(* signatures from mirrors (package publish).                              *)
(*                                                                         *)
(* A hash is the index of an object in the sequence `objects`: storing     *)
(* bytes that are already stored yields the index they have, storing new   *)
(* bytes appends them (a collision-free content address).  Nil (0) is the  *)
(* nil *Hash.                                                              *)
(***************************************************************************)
EXTENDS Integers, Sequences, FiniteSets, TLC

VARIABLES
    objects,   \* the object store: hash (index) -> stored bytes
    latest,    \* the path-latest index: path -> hash of the latest File record, or Nil
    cache,     \* the path-info cache: path -> set holding the cached FileInfo (empty: none)
    fs,        \* the local filesystem: path -> node
    now,       \* the wall clock, in ticks (Second ticks make a second)
    snap,      \* the locals of each running regular-file snapshot (one per process)
    ret,       \* history: per path, the snapshot the most recent Current(path) that
               \*          found the path returned (Nil: none yet)
    settled,   \* history: per path, the hash the most recent uninterrupted Current(path)
               \*          returned, if nothing under the path changed since (else None)
    last,      \* history: what the operation that has just completed did
    signatures,\* the identity index: identity -> hash of its latest signature, or Nil
    pub        \* the locals of each running publish operation (one per process)

vars == <<objects, latest, cache, fs, now, snap, ret, settled, last, signatures, pub>>

-----------------------------------------------------------------------------
(* Bounds of the model. *)

MaxObjects == 6
MaxTime == 2

(* time.Second, in clock ticks.  The clock and the modification times     *)
(* have the resolution of a tick; what happens within one second is what   *)
(* happens between two ticks.                                              *)
Second == 1

Nil == 0
None == Nil - 1     \* history only: "no hash"

Roots == {"x", "y"}
NameSeq == <<"a", "b">>          \* the name components, in ascending byte order
Names == {NameSeq[i] : i \in 1..Len(NameSeq)}
StoreRoot == <<"s">>             \* the store's own storage root
Paths == {<<r>> : r \in Roots} \cup {<<r, n>> : r \in Roots, n \in Names} \cup {StoreRoot}

(* File contents and link targets are byte strings. *)
Data == {<<1>>, <<2>>}
Perms == {0, 1}
Procs == {1}
(* The processes that may hold a snapshot in progress. *)
SnapProcs == {1, 2}

(* Publishing.  An identity is <ns>::<rest>, a mirror URL <scheme>:<rest>;  *)
(* the strings handed to helpers and printed by them are sequences of      *)
(* their parts.  Signatures are objects named by the hashes 1..MaxSig; the *)
(* verify helper attests a snapshot for each but the last of them.         *)
MaxSig == 3
Sigs == 1..MaxSig
Rejected == {MaxSig}
Attested(sig) == MaxSig + sig
SignedSnapshots == {Attested(sig) : sig \in Sigs}
NoIdentity == [ns |-> "", rest |-> ""]      \* the nil *Identity
Identities == {[ns |-> "ex", rest |-> "u"]}
NoURL == [scheme |-> "", rest |-> Nil]      \* the nil *url.URL
PubProcs == {1, 2}
PubIdle == [pc |-> "idle", id |-> NoIdentity, start |-> Nil, signature |-> Nil,
            signed |-> Nil, i |-> 0, trace |-> <<>>, stale |-> FALSE,
            h |-> Nil, helper |-> FALSE, cancelled |-> FALSE, signaled |-> FALSE]

Join(p, n) == Append(p, n)
Parent(p) == SubSeq(p, 1, Len(p) - 1)
Under(p) == {q \in Paths : Len(q) >= Len(p) /\ SubSeq(q, 1, Len(p)) = p}
Above(p) == {q \in Paths : p \in Under(q)}

Min(a, b) == IF a < b THEN a ELSE b

-----------------------------------------------------------------------------
(* The filesystem. *)

NoNode == [kind |-> "none", perm |-> 0, data |-> <<>>, mtime |-> 0]

Exists(f, p) == p \in Paths /\ f[p].kind # "none"

(* info.Mode().String(): the type bits and the permission bits. *)
ModeLine(node) == [type |-> node.kind, perm |-> node.perm]

(* os.FileInfo of a node: mode, size and modification time. *)
Info(node) == [mode |-> ModeLine(node), size |-> Len(node.data), mtime |-> node.mtime]

Truncate(t) == t - (t % Second)

-----------------------------------------------------------------------------
(* Objects: file contents, serialized Trees and serialized File records. *)

Blob(bytes) == [kind |-> "blob", bytes |-> bytes]

(* Tree.String(): one line per entry, sorted ascending by name. *)
RECURSIVE TreeLines(_, _)
TreeLines(tree, i) ==
    IF i > Len(NameSeq) THEN <<>>
    ELSE (IF NameSeq[i] \in DOMAIN tree THEN << <<NameSeq[i], tree[NameSeq[i]]>> >> ELSE <<>>)
         \o TreeLines(tree, i + 1)

TreeString(tree) == [kind |-> "tree", lines |-> TreeLines(tree, 1)]

(* ParseTree: the map a serialized Tree denotes. *)
ParseTree(obj) ==
    [n \in {obj.lines[i][1] : i \in 1..Len(obj.lines)} |->
        obj.lines[CHOOSE i \in 1..Len(obj.lines) : obj.lines[i][1] = n][2]]

EmptyTree == [n \in {} |-> Nil]

(* File.String(): the mode, the contents and the parents, in this order. *)
FileString(f) == [kind |-> "file", lines |-> <<f.mode, f.contents>> \o f.parents]

(* ParseFile: the File record a serialized snapshot denotes. *)
ParseFile(obj) ==
    [mode |-> obj.lines[1], contents |-> obj.lines[2],
     parents |-> SubSeq(obj.lines, 3, Len(obj.lines))]

IsDir(f) == f.mode.type = "dir"
IsLink(f) == f.mode.type = "link"

FileHashes(objs) == {h \in 1..Len(objs) : objs[h].kind = "file"}

-----------------------------------------------------------------------------
(* The object store.  A store state st is a record: objects, latest, cache *)
(* as the variables, h the hash the last call returned, seen, the hash     *)
(* Current returned for each path it visited (None: not visited), and      *)
(* hits, the regular files whose snapshot the cache fast path returned.    *)

StoreState == [objects |-> objects, latest |-> latest, cache |-> cache,
               h |-> Nil, seen |-> [p \in Paths |-> None], hits |-> {}]

(* A fast-path hit: the path, the snapshot returned, the file's bytes when *)
(* its info was taken and when the cached snapshot was returned.           *)
Hit(p, h, statBytes, hitBytes) ==
    [path |-> p, h |-> h, statBytes |-> statBytes, hitBytes |-> hitBytes]

(* StoreObject of bytes already serialized: the digest keys the bytes. *)
Store(st, obj) ==
    IF \E i \in 1..Len(st.objects) : st.objects[i] = obj
    THEN [st EXCEPT !.h = CHOOSE i \in 1..Len(st.objects) : st.objects[i] = obj]
    ELSE [st EXCEPT !.objects = Append(st.objects, obj), !.h = Len(st.objects) + 1]

(* StoreObject(size, reader): drains at most size bytes of the reader. *)
StoreObject(st, size, bytes) == Store(st, Blob(SubSeq(bytes, 1, Min(size, Len(bytes)))))

ReadSnapshot(objs, h) == ParseFile(objs[h])

ListDirectorySnapshotContents(objs, f) == ParseTree(objs[f.contents])

(* StoreSnapshot: store the serialized File and point the path at it. *)
StoreSnapshot(st, p, f) ==
    LET s1 == Store(st, FileString(f))
    IN  [s1 EXCEPT !.latest[p] = s1.h]

PathInfoMatchesCache(st, p, info) == info \in st.cache[p]

CachePathInfo(st, p, info) == [st EXCEPT !.cache[p] = {info}]

(* The store's own storage root is excluded from snapshots. *)
Exclude(p) == p \in Under(StoreRoot)

-----------------------------------------------------------------------------
(* The snapshotter. *)

(* A faulty variant: the unchanged-from-the-last-snapshot check is missing. *)
snapshotFileMetadata_NoPrevCheck(st, p, info, contentsHash) ==
    StoreSnapshot(st, p,
        [mode |-> info.mode, contents |-> contentsHash,
         parents |-> IF st.latest[p] # Nil THEN <<st.latest[p]>> ELSE <<>>])

(* A faulty variant: the previous snapshot is not made the parent. *)
snapshotFileMetadata_NoParent(st, p, info, contentsHash) ==
    LET prevFileHash == st.latest[p]
    IN  IF /\ prevFileHash # Nil
           /\ ReadSnapshot(st.objects, prevFileHash).mode = info.mode
           /\ ReadSnapshot(st.objects, prevFileHash).contents = contentsHash
        THEN [st EXCEPT !.h = prevFileHash]
        ELSE StoreSnapshot(st, p,
                [mode |-> info.mode, contents |-> contentsHash, parents |-> <<>>])

(* A faulty variant: the previous snapshot is made the parent only if the mode is unchanged. *)
snapshotFileMetadata_ParentIfSameMode(st, p, info, contentsHash) ==
    LET prevFileHash == st.latest[p]
    IN  IF /\ prevFileHash # Nil
           /\ ReadSnapshot(st.objects, prevFileHash).mode = info.mode
           /\ ReadSnapshot(st.objects, prevFileHash).contents = contentsHash
        THEN [st EXCEPT !.h = prevFileHash]
        ELSE StoreSnapshot(st, p,
                [mode |-> info.mode, contents |-> contentsHash,
                 parents |-> IF prevFileHash # Nil
                                /\ ReadSnapshot(st.objects, prevFileHash).mode = info.mode
                             THEN <<prevFileHash>> ELSE <<>>])

snapshotFileMetadata(st, p, info, contentsHash) ==
    LET prevFileHash == st.latest[p]
        modeLine == info.mode
    IN  IF /\ prevFileHash # Nil
           /\ ReadSnapshot(st.objects, prevFileHash).mode = modeLine
           /\ ReadSnapshot(st.objects, prevFileHash).contents = contentsHash
        THEN [st EXCEPT !.h = prevFileHash]
        ELSE StoreSnapshot(st, p,
                [mode |-> modeLine, contents |-> contentsHash,
                 parents |-> IF prevFileHash # Nil THEN <<prevFileHash>> ELSE <<>>])

(* readCached: a cache match whose FindSnapshot succeeds. *)
readCached(st, p, info) == PathInfoMatchesCache(st, p, info) /\ st.latest[p] # Nil

(* A faulty variant: the one-second check is dropped. *)
CacheGuard_NoSkew(info, postExists, postMtime, startTimeSec) ==
    postExists /\ postMtime = info.mtime

(* A faulty variant: the result of the second Lstat is not looked at. *)
CacheGuard_NoLstatCheck(info, postExists, postMtime, startTimeSec) ==
    /\ postMtime = info.mtime
    /\ postMtime < startTimeSec - Second

(* The deferred function's conditions for caching the path info. *)
CacheGuard(info, postExists, postMtime, startTimeSec) ==
    /\ postExists
    /\ postMtime = info.mtime
    /\ postMtime < startTimeSec - Second

(* snapshotRegularFile with nothing interleaved: bytes is what the reader gives. *)
snapshotRegularFile(st, p, info, bytes) ==
    LET startTimeSec == Truncate(now)
        s1 == StoreObject(st, info.size, bytes)
        s2 == snapshotFileMetadata(s1, p, info, s1.h)
    IN  IF readCached(st, p, info)
        THEN [st EXCEPT !.h = st.latest[p],
                        !.hits = @ \cup {Hit(p, st.latest[p], bytes, bytes)}]
        ELSE IF CacheGuard(info, Exists(fs, p), fs[p].mtime, startTimeSec)
             THEN CachePathInfo(s2, p, info)
             ELSE s2

snapshotLink(st, p, info) ==
    LET s1 == StoreObject(st, Len(fs[p].data), fs[p].data)
    IN  snapshotFileMetadata(s1, p, info, s1.h)

RECURSIVE Current(_, _)
RECURSIVE SnapChildren(_, _, _)

(* The loop of snapshotDirectory over the entries: the store state after   *)
(* it and the Tree of the children whose hash is not nil.                  *)
SnapChildren(st, p, i) ==
    IF i > Len(NameSeq) THEN [st |-> st, tree |-> EmptyTree]
    ELSE LET name == NameSeq[i]
             childPath == Join(p, name)
             isEntry == Exists(fs, childPath)
             r == IF isEntry THEN Current(st, childPath) ELSE st
             rest == SnapChildren(r, p, i + 1)
         IN  [st |-> rest.st,
              tree |-> IF isEntry /\ r.h # Nil
                       THEN (name :> r.h) @@ rest.tree
                       ELSE rest.tree]

snapshotDirectory(st, p, info) ==
    LET c == SnapChildren(st, p, 1)
        s1 == Store(c.st, TreeString(c.tree))
    IN  snapshotFileMetadata(s1, p, info, s1.h)

CurrentBody(st, p) ==
    IF Exclude(p) THEN [st EXCEPT !.h = Nil]
    ELSE IF fs[p].kind = "none" THEN [st EXCEPT !.h = Nil]
    ELSE IF fs[p].kind = "link" THEN snapshotLink(st, p, Info(fs[p]))
    ELSE IF fs[p].kind = "dir" THEN snapshotDirectory(st, p, Info(fs[p]))
    ELSE snapshotRegularFile(st, p, Info(fs[p]), fs[p].data)

(* Current(p), with the hash it returns recorded for the path. *)
Current(st, p) ==
    LET r == CurrentBody(st, p)
    IN  [r EXCEPT !.seen[p] = r.h]

-----------------------------------------------------------------------------
(* The state after construction: an empty store and empty working paths.   *)

Idle == [pc |-> "idle", path |-> <<>>, info |-> Info(NoNode), start |-> 0, h |-> Nil,
         res |-> Nil, fast |-> FALSE, orphan |-> FALSE, odata |-> <<>>,
         post |-> [exists |-> FALSE, mtime |-> 0],
         statBytes |-> <<>>, hitBytes |-> <<>>,
         entries |-> <<>>, tree |-> EmptyTree, kids |-> <<>>, err |-> "", stored |-> TRUE,
         prev |-> Nil]

Init ==
    /\ objects = <<>>
    /\ latest = [p \in Paths |-> Nil]
    /\ cache = [p \in Paths |-> {}]
    /\ fs = [p \in Paths |-> IF p = StoreRoot
                             THEN [kind |-> "dir", perm |-> 0, data |-> <<>>, mtime |-> 0]
                             ELSE NoNode]
    /\ now = 0
    /\ snap = [pr \in SnapProcs |-> Idle]
    /\ ret = [p \in Paths |-> Nil]
    /\ settled = [p \in Paths |-> None]
    /\ last = [op |-> "none"]
    /\ signatures = [id \in Identities |-> Nil]
    /\ pub = [pr \in PubProcs |-> PubIdle]

AllIdle == \A pr \in SnapProcs : snap[pr].pc = "idle"

(* The processes that hold path q open for reading. *)
Holding(q) == {pr \in Procs : snap[pr].pc \in {"start", "read"} /\ snap[pr].path = q}

-----------------------------------------------------------------------------
(* The environment: the clock and the programs that change the files.      *)

NoOp == [op |-> "none"]

Tick ==
    /\ now < MaxTime
    /\ now' = now + 1
    /\ last' = IF last.op = "Merge" THEN last ELSE NoOp   \* time is no change of the files
    /\ UNCHANGED <<objects, latest, cache, fs, snap, ret, settled, signatures, pub>>

Touched(p) == [q \in Paths |-> IF q \in Above(p) THEN None ELSE settled[q]]

CanCreate(p) ==
    /\ ~Exclude(p)
    /\ fs[p].kind = "none"
    /\ IF Len(p) = 1 THEN TRUE ELSE fs[Parent(p)].kind = "dir"
    \* an unlinked file that is still held open keeps its inode: the model has no
    \* inode numbers, so the path is not created anew before the file is closed
    /\ \A pr \in SnapProcs : ~(snap[pr].orphan /\ snap[pr].path = p)

(* A write to a regular file (creating it if needed): the modification     *)
(* time is the clock's, at one-second resolution.                          *)
WriteFile(p, d) ==
    /\ IF fs[p].kind = "file" THEN fs[p].data # d ELSE CanCreate(p)
    /\ fs' = [fs EXCEPT ![p] = [kind |-> "file", perm |-> fs[p].perm, data |-> d,
                                mtime |-> Truncate(now)]]
    /\ settled' = Touched(p)
    /\ last' = NoOp
    /\ UNCHANGED <<objects, latest, cache, now, snap, ret, signatures, pub>>

MkDir(p) ==
    /\ Len(p) = 1
    /\ CanCreate(p)
    /\ fs' = [fs EXCEPT ![p] = [kind |-> "dir", perm |-> 0, data |-> <<>>, mtime |-> 0]]
    /\ settled' = Touched(p)
    /\ last' = NoOp
    /\ UNCHANGED <<objects, latest, cache, now, snap, ret, signatures, pub>>

MkLink(p, d) ==
    /\ CanCreate(p)
    /\ fs' = [fs EXCEPT ![p] = [kind |-> "link", perm |-> 1, data |-> d, mtime |-> 0]]
    /\ settled' = Touched(p)
    /\ last' = NoOp
    /\ UNCHANGED <<objects, latest, cache, now, snap, ret, signatures, pub>>

(* chmod changes the mode and leaves the modification time alone. *)
Chmod(p) ==
    /\ ~Exclude(p)
    /\ fs[p].kind \in {"file", "dir"}
    /\ fs' = [fs EXCEPT ![p].perm = 1 - @]
    /\ settled' = Touched(p)
    /\ last' = NoOp
    /\ UNCHANGED <<objects, latest, cache, now, snap, ret, signatures, pub>>

(* rm -r: a regular file that a snapshot holds open keeps its bytes.       *)
Remove(p) ==
    /\ ~Exclude(p)
    /\ fs[p].kind # "none"
    /\ fs' = [q \in Paths |-> IF q \in Under(p) THEN NoNode ELSE fs[q]]
    /\ snap' = [pr \in SnapProcs |->
                  IF snap[pr].pc \in {"start", "read"} /\ snap[pr].path \in Under(p)
                     /\ ~snap[pr].orphan
                  THEN [snap[pr] EXCEPT !.orphan = TRUE, !.odata = fs[snap[pr].path].data]
                  ELSE snap[pr]]
    /\ settled' = [q \in Paths |-> IF q \in Above(p) \cup Under(p) THEN None ELSE settled[q]]
    /\ last' = NoOp
    /\ UNCHANGED <<objects, latest, cache, now, ret, signatures, pub>>

-----------------------------------------------------------------------------
(* Current(p) on a regular file, step by step: the environment may act     *)
(* between any two steps.                                                  *)

(* os.Lstat(p) finds a regular file. *)
Lstat(pr, p) ==
    /\ AllIdle
    /\ ~Exclude(p)
    /\ fs[p].kind = "file"
    /\ snap' = [snap EXCEPT ![pr] = [Idle EXCEPT !.pc = "open", !.path = p]]
    /\ settled' = [settled EXCEPT ![p] = None]
    /\ last' = NoOp
    /\ UNCHANGED <<objects, latest, cache, fs, now, ret, signatures, pub>>

(* os.Open(p) and contents.Stat(): the file may have vanished, or be a     *)
(* directory by now.                                                       *)
Open(pr) ==
    LET p == snap[pr].path
        d == snapshotDirectory(StoreState, p, Info(fs[p]))
    IN  /\ snap[pr].pc = "open"
        /\ CASE fs[p].kind = "file" ->
                  /\ snap' = [snap EXCEPT ![pr].pc = "start", ![pr].info = Info(fs[p]),
                                          ![pr].statBytes = fs[p].data]
                  /\ UNCHANGED <<objects, latest, cache>>
             [] fs[p].kind = "dir" ->
                  /\ Len(d.objects) <= MaxObjects
                  /\ objects' = d.objects
                  /\ latest' = d.latest
                  /\ cache' = d.cache
                  /\ snap' = [snap EXCEPT ![pr].pc = "return", ![pr].res = d.h]
             [] OTHER ->
                  \* the path is gone, or a link to nothing
                  /\ snap' = [snap EXCEPT ![pr].pc = "return", ![pr].res = Nil]
                  /\ UNCHANGED <<objects, latest, cache>>
        /\ UNCHANGED <<fs, now, ret, settled, last, signatures, pub>>

(* snapshotRegularFile: the start time, then the cache fast path. *)
Start(pr) ==
    LET p == snap[pr].path
        bytes == IF snap[pr].orphan THEN snap[pr].odata ELSE fs[p].data
    IN  /\ snap[pr].pc = "start"
        /\ IF readCached(StoreState, p, snap[pr].info)
           THEN snap' = [snap EXCEPT ![pr].pc = "return", ![pr].res = latest[p],
                                     ![pr].start = Truncate(now),
                                     ![pr].fast = TRUE, ![pr].hitBytes = bytes]
           ELSE snap' = [snap EXCEPT ![pr].pc = "read", ![pr].start = Truncate(now)]
        /\ UNCHANGED <<objects, latest, cache, fs, now, ret, settled, last, signatures, pub>>

(* s.StoreObject(ctx, info.Size(), contents) *)
Read(pr) ==
    LET p == snap[pr].path
        bytes == IF snap[pr].orphan THEN snap[pr].odata ELSE fs[p].data
        s1 == StoreObject(StoreState, snap[pr].info.size, bytes)
    IN  /\ snap[pr].pc = "read"
        /\ Len(s1.objects) <= MaxObjects
        /\ objects' = s1.objects
        /\ snap' = [snap EXCEPT ![pr].pc = "meta", ![pr].h = s1.h]
        /\ UNCHANGED <<latest, cache, fs, now, ret, settled, last, signatures, pub>>

(* snapshotFileMetadata(ctx, s, p, info, h) *)
Meta(pr) ==
    LET p == snap[pr].path
        s2 == snapshotFileMetadata(StoreState, p, snap[pr].info, snap[pr].h)
    IN  /\ snap[pr].pc = "meta"
        /\ Len(s2.objects) <= MaxObjects
        /\ objects' = s2.objects
        /\ latest' = s2.latest
        /\ snap' = [snap EXCEPT ![pr].pc = "lstat", ![pr].res = s2.h]
        /\ UNCHANGED <<cache, fs, now, ret, settled, last, signatures, pub>>

(* s.StoreObject or s.StoreSnapshot fails: snapshotRegularFile returns the  *)
(* error and no hash, and the deferred function, finding no snapshot       *)
(* constructed, returns at once.                                           *)
StoreFails(pr) ==
    /\ snap[pr].pc \in {"read", "meta"}
    /\ snap' = [snap EXCEPT ![pr].pc = "return", ![pr].h = Nil, ![pr].res = Nil]
    /\ UNCHANGED <<objects, latest, cache, fs, now, ret, settled, last, signatures, pub>>

(* The deferred function: os.Lstat(p) after the snapshot was made. *)
PostLstat(pr) ==
    LET p == snap[pr].path
    IN  /\ snap[pr].pc = "lstat"
        /\ snap' = [snap EXCEPT ![pr].pc = "cache",
                                ![pr].post = [exists |-> Exists(fs, p), mtime |-> fs[p].mtime]]
        /\ UNCHANGED <<objects, latest, cache, fs, now, ret, settled, last, signatures, pub>>

(* The deferred function: cache the path info if appropriate. *)
CacheWrite(pr) ==
    LET p == snap[pr].path
    IN  /\ snap[pr].pc = "cache"
        /\ cache' = IF CacheGuard(snap[pr].info, snap[pr].post.exists, snap[pr].post.mtime,
                                  snap[pr].start)
                    THEN CachePathInfo(StoreState, p, snap[pr].info).cache
                    ELSE cache
        /\ snap' = [snap EXCEPT ![pr].pc = "return"]
        /\ UNCHANGED <<objects, latest, fs, now, ret, settled, last, signatures, pub>>

(* Current returns. *)
Return(pr) ==
    LET p == snap[pr].path
        sn == snap[pr]
    IN  /\ sn.pc = "return"
        /\ last' = [op |-> "CurrentSteps", path |-> p, h |-> sn.res, fast |-> sn.fast,
                    hits |-> IF sn.fast
                             THEN {Hit(p, sn.res, sn.statBytes, sn.hitBytes)} ELSE {}]
        /\ ret' = IF sn.res # Nil THEN [ret EXCEPT ![p] = sn.res] ELSE ret
        /\ snap' = [snap EXCEPT ![pr] = Idle]
        /\ UNCHANGED <<objects, latest, cache, fs, now, settled, signatures, pub>>

(* What a Current(p) that ran with nothing interleaved did: the hash it   *)
(* returned, the hash the run before it returned if nothing changed since  *)
(* (prev), the store before it and after it, and the paths it visited.     *)
CurrentDone(p, r) ==
    [op |-> "Current", path |-> p, h |-> r.h, prev |-> settled[p],
     objects0 |-> objects, objects1 |-> r.objects,
     latest0 |-> latest, latest1 |-> r.latest, ret0 |-> ret,
     seen |-> r.seen, hits |-> r.hits]

(* The paths a Current visited and found: it returned a snapshot for them. *)
Found(seen) == {q \in Paths : seen[q] # None /\ seen[q] # Nil}

(* Current(p) with nothing interleaved, on any path, in a store of at most *)
(* max objects.                                                            *)
SnapshotWithin(p, max) ==
    \E r \in {Current(StoreState, p)} :
        /\ AllIdle
        /\ Len(r.objects) <= max
        /\ objects' = r.objects
        /\ latest' = r.latest
        /\ cache' = r.cache
        /\ ret' = [q \in Paths |-> IF q \in Found(r.seen) THEN r.seen[q] ELSE ret[q]]
        /\ settled' = [q \in Paths |-> IF r.seen[q] # None THEN r.seen[q] ELSE settled[q]]
        /\ last' = CurrentDone(p, r)
        /\ UNCHANGED <<fs, now, snap, signatures, pub>>

Snapshot(p) == SnapshotWithin(p, MaxObjects)

-----------------------------------------------------------------------------
(* Spec: snapshots, one at a time, of files, links and directories that    *)
(* change between them.                                                    *)

FilePaths == {<<"x", "a">>}
DirPaths == {<<"x">>}
LinkTargets == {<<2>>}

Next ==
    \/ Tick
    \/ \E p \in FilePaths, d \in Data : WriteFile(p, d)
    \/ \E p \in DirPaths : MkDir(p)
    \/ \E p \in FilePaths, d \in LinkTargets : MkLink(p, d)
    \/ \E p \in FilePaths \cup DirPaths : Remove(p)
    \/ \E p \in FilePaths \cup DirPaths : Snapshot(p)

Spec == Init /\ [][Next]_vars

-----------------------------------------------------------------------------
(* SpecRace: a snapshot of a regular file in steps, with writes to the     *)
(* file and the clock interleaved.                                         *)

RacePaths == {<<"x">>}

NextRace ==
    \/ Tick
    \/ \E p \in RacePaths, d \in Data : WriteFile(p, d)
    \/ \E p \in RacePaths : Remove(p)
    \/ \E pr \in Procs, p \in RacePaths : Lstat(pr, p)
    \/ \E pr \in Procs : Open(pr)
    \/ \E pr \in Procs : Start(pr)
    \/ \E pr \in Procs : Read(pr)
    \/ \E pr \in Procs : Meta(pr)
    \/ \E pr \in Procs : StoreFails(pr)
    \/ \E pr \in Procs : PostLstat(pr)
    \/ \E pr \in Procs : CacheWrite(pr)
    \/ \E pr \in Procs : Return(pr)

SpecRace == Init /\ [][NextRace]_vars

-----------------------------------------------------------------------------
(* SpecIndexRace: two snapshots of one regular file at a time.  Each reads *)
(* the path-latest entry with FindSnapshot and writes it with              *)
(* StoreSnapshot; the other, and writes to the file, may come in between.  *)

MaxRaceObjects == 5

(* snapshotFileMetadata from the FindSnapshot result on: prevFileHash is   *)
(* what FindSnapshot returned, st the store by the time of StoreSnapshot.  *)
snapshotFileMetadataFrom(st, p, info, contentsHash, prevFileHash) ==
    IF /\ prevFileHash # Nil
       /\ ReadSnapshot(st.objects, prevFileHash).mode = info.mode
       /\ ReadSnapshot(st.objects, prevFileHash).contents = contentsHash
    THEN [st EXCEPT !.h = prevFileHash]
    ELSE StoreSnapshot(st, p,
            [mode |-> info.mode, contents |-> contentsHash,
             parents |-> IF prevFileHash # Nil THEN <<prevFileHash>> ELSE <<>>])

(* Current(p) of a regular file up to the FindSnapshot of                  *)
(* snapshotFileMetadata: the cache fast path, the bytes stored, the entry  *)
(* of the path read.                                                       *)
FindPrev(pr, p) ==
    LET info == Info(fs[p])
        s1 == StoreObject(StoreState, info.size, fs[p].data)
    IN  /\ snap[pr].pc = "idle"
        /\ ~Exclude(p)
        /\ fs[p].kind = "file"
        /\ Len(s1.objects) <= MaxRaceObjects
        /\ IF readCached(StoreState, p, info)
           THEN /\ snap' = [snap EXCEPT ![pr] = [Idle EXCEPT !.pc = "return", !.path = p,
                                                             !.res = latest[p], !.fast = TRUE]]
                /\ UNCHANGED objects
           ELSE /\ snap' = [snap EXCEPT ![pr] = [Idle EXCEPT !.pc = "found", !.path = p,
                                                             !.info = info, !.h = s1.h,
                                                             !.start = Truncate(now),
                                                             !.prev = latest[p]]]
                /\ objects' = s1.objects
        /\ last' = NoOp
        /\ UNCHANGED <<latest, cache, fs, now, ret, settled, signatures, pub>>

(* The rest of snapshotFileMetadata, the deferred function of              *)
(* snapshotRegularFile and the return of Current.                          *)
StoreLatest(pr) ==
    LET sn == snap[pr]
        p == sn.path
        s2 == snapshotFileMetadataFrom(StoreState, p, sn.info, sn.h, sn.prev)
    IN  /\ sn.pc = "found"
        /\ Len(s2.objects) <= MaxRaceObjects
        /\ objects' = s2.objects
        /\ latest' = s2.latest
        /\ cache' = IF CacheGuard(sn.info, Exists(fs, p), fs[p].mtime, sn.start)
                    THEN CachePathInfo(s2, p, sn.info).cache ELSE cache
        /\ snap' = [snap EXCEPT ![pr] = Idle]
        /\ ret' = [ret EXCEPT ![p] = s2.h]
        /\ last' = [op |-> "CurrentRace", pr |-> pr, path |-> p, h |-> s2.h,
                    prev |-> sn.prev, latest0 |-> latest[p], objects0 |-> objects]
        /\ UNCHANGED <<fs, now, settled, signatures, pub>>

(* The fast path returns the snapshot of the cache entry. *)
FastReturn(pr) ==
    /\ snap[pr].pc = "return"
    /\ snap[pr].fast
    /\ snap' = [snap EXCEPT ![pr] = Idle]
    /\ ret' = [ret EXCEPT ![snap[pr].path] = snap[pr].res]
    /\ last' = NoOp
    /\ UNCHANGED <<objects, latest, cache, fs, now, settled, signatures, pub>>

NextIndexRace ==
    \/ Tick
    \/ \E p \in RacePaths, d \in Data : WriteFile(p, d)
    \/ \E pr \in SnapProcs, p \in RacePaths : FindPrev(pr, p)
    \/ \E pr \in SnapProcs : StoreLatest(pr)
    \/ \E pr \in SnapProcs : FastReturn(pr)

SpecIndexRace == Init /\ [][NextIndexRace]_vars

-----------------------------------------------------------------------------
(* Current(p) on a directory, step by step: the entries are read once, and *)
(* the environment may act before the Current of each of them and between  *)
(* the Lstat and the Open of it.                                           *)

MaxWalkObjects == 4

(* contents.ReadDir(0): the names under p, as the loop ranges over them. *)
RECURSIVE ReadDir(_, _, _)
ReadDir(f, p, i) ==
    IF i > Len(NameSeq) THEN <<>>
    ELSE (IF Exists(f, Join(p, NameSeq[i])) THEN <<NameSeq[i]>> ELSE <<>>)
         \o ReadDir(f, p, i + 1)

(* What the Current of an entry did: the hash it returned, where it found  *)
(* the entry missing if it did ("lstat", "open") or that its Lstat failed  *)
(* ("stat"), and whether it wrote to the store.                            *)
Kid(name, h, missing, wrote) == [name |-> name, h |-> h, missing |-> missing, wrote |-> wrote]

(* Current(p) up to the loop of snapshotDirectory: p is a directory. *)
WalkStart(pr, p) ==
    /\ AllIdle
    /\ ~Exclude(p)
    /\ fs[p].kind = "dir"
    /\ snap' = [snap EXCEPT ![pr] = [Idle EXCEPT !.pc = "entry", !.path = p,
                                                 !.info = Info(fs[p]),
                                                 !.entries = ReadDir(fs, p, 1)]]
    /\ settled' = [q \in Paths |-> IF q \in Above(p) \cup Under(p) THEN None ELSE settled[q]]
    /\ last' = NoOp
    /\ UNCHANGED <<objects, latest, cache, fs, now, ret, signatures, pub>>

(* A faulty variant: a child is put in the Tree whatever its hash. *)
AddChild_Always(tree, name, childHash) == (name :> childHash) @@ tree

(* Lines 511-513: a child goes into the Tree if its hash is not nil. *)
AddChild(tree, name, childHash) ==
    IF childHash # Nil THEN (name :> childHash) @@ tree ELSE tree

(* The loop goes on to the next entry, the Current of this one having      *)
(* left the store state r.                                                 *)
NextEntry(sn, r, missing) ==
    [sn EXCEPT !.pc = "entry", !.entries = Tail(sn.entries),
               !.tree = AddChild(sn.tree, Head(sn.entries), r.h),
               !.kids = Append(sn.kids,
                               Kid(Head(sn.entries), r.h, missing,
                                   r.objects # objects \/ r.latest # latest))]

(* Current(childPath), lines 539-554: os.Lstat succeeds (ok) or fails with *)
(* an error other than not-exist; a link is snapshotted at once.           *)
ChildLstat(pr, ok) ==
    LET sn == snap[pr]
        childPath == Join(sn.path, Head(sn.entries))
        l == snapshotLink(StoreState, childPath, Info(fs[childPath]))
    IN  /\ sn.pc = "entry"
        /\ sn.entries # <<>>
        /\ IF Exclude(childPath) \/ (ok /\ fs[childPath].kind = "none")
           THEN /\ snap' = [snap EXCEPT ![pr] = NextEntry(sn, StoreState, "lstat")]
                /\ UNCHANGED <<objects, latest>>
           ELSE IF ~ok
           THEN /\ snap' = [snap EXCEPT
                          ![pr].pc = "walked", ![pr].res = Nil, ![pr].err = "child",
                          ![pr].kids = Append(sn.kids, Kid(Head(sn.entries), Nil, "stat", FALSE))]
                /\ UNCHANGED <<objects, latest>>
           ELSE IF fs[childPath].kind = "link"
           THEN /\ Len(l.objects) <= MaxWalkObjects
                /\ objects' = l.objects
                /\ latest' = l.latest
                /\ snap' = [snap EXCEPT ![pr] = NextEntry(sn, l, "")]
           ELSE /\ snap' = [snap EXCEPT ![pr].pc = "open entry"]
                /\ UNCHANGED <<objects, latest>>
        /\ UNCHANGED <<cache, fs, now, ret, settled, last, signatures, pub>>

(* Current(childPath), lines 555-577: os.Open finds the entry gone, or the *)
(* entry is snapshotted.                                                   *)
ChildOpen(pr) ==
    LET sn == snap[pr]
        childPath == Join(sn.path, Head(sn.entries))
        r == IF fs[childPath].kind = "dir"
             THEN snapshotDirectory(StoreState, childPath, Info(fs[childPath]))
             ELSE snapshotRegularFile(StoreState, childPath, Info(fs[childPath]),
                                      fs[childPath].data)
    IN  /\ sn.pc = "open entry"
        /\ IF fs[childPath].kind = "none"
           THEN /\ snap' = [snap EXCEPT ![pr] = NextEntry(sn, StoreState, "open")]
                /\ UNCHANGED <<objects, latest, cache>>
           ELSE /\ Len(r.objects) <= MaxWalkObjects
                /\ objects' = r.objects
                /\ latest' = r.latest
                /\ cache' = r.cache
                /\ snap' = [snap EXCEPT ![pr] = NextEntry(sn, r, "")]
        /\ UNCHANGED <<fs, now, ret, settled, last, signatures, pub>>

(* snapshotFileMetadata, where StoreSnapshot may fail (saved is false): it *)
(* then returns the error and no hash.                                     *)
snapshotFileMetadataOrFail(st, p, info, contentsHash, saved) ==
    LET prevFileHash == st.latest[p]
        unchanged == /\ prevFileHash # Nil
                     /\ ReadSnapshot(st.objects, prevFileHash).mode = info.mode
                     /\ ReadSnapshot(st.objects, prevFileHash).contents = contentsHash
    IN  IF unchanged \/ saved
        THEN [st |-> snapshotFileMetadata(st, p, info, contentsHash), err |-> ""]
        ELSE [st |-> [st EXCEPT !.h = Nil], err |-> "save"]

(* snapshotDirectory, lines 515-517: s.StoreObject of the serialized Tree  *)
(* succeeds (stored) or fails, returning no hash and an error that is not  *)
(* looked at; then snapshotFileMetadata with the hash it returned.         *)
StoreTree(pr, stored, saved) ==
    LET sn == snap[pr]
        s1 == IF stored THEN Store(StoreState, TreeString(sn.tree)) ELSE StoreState
        contentsHash == s1.h
        r == snapshotFileMetadataOrFail(s1, sn.path, sn.info, contentsHash, saved)
    IN  /\ sn.pc = "entry"
        /\ sn.entries = <<>>
        /\ Len(r.st.objects) <= MaxWalkObjects
        /\ objects' = r.st.objects
        /\ latest' = r.st.latest
        /\ snap' = [snap EXCEPT ![pr].pc = "walked", ![pr].res = r.st.h, ![pr].err = r.err,
                                ![pr].stored = stored, ![pr].prev = latest[sn.path]]
        /\ UNCHANGED <<cache, fs, now, ret, settled, last, signatures, pub>>

(* Current(p) returns. *)
WalkReturn(pr) ==
    LET sn == snap[pr]
    IN  /\ sn.pc = "walked"
        /\ last' = [op |-> "CurrentWalk", path |-> sn.path, h |-> sn.res, err |-> sn.err,
                    kids |-> sn.kids, left |-> sn.entries, tree |-> sn.tree,
                    stored |-> sn.stored, info |-> sn.info, prev |-> sn.prev]
        /\ ret' = IF sn.res # Nil THEN [ret EXCEPT ![sn.path] = sn.res] ELSE ret
        /\ snap' = [snap EXCEPT ![pr] = Idle]
        /\ UNCHANGED <<objects, latest, cache, fs, now, settled, signatures, pub>>

(* SpecWalk: snapshots of a directory in steps, while files are written    *)
(* to it and removed from it, and snapshots of excluded and missing paths. *)
WalkPaths == {<<"x", "a">>, <<"x", "b">>}
WalkData == {<<1>>}

NextWalk ==
    \/ \E p \in DirPaths : MkDir(p)
    \/ \E p \in WalkPaths, d \in WalkData : WriteFile(p, d)
    \/ \E p \in WalkPaths : Remove(p)
    \/ \E p \in {StoreRoot} \cup WalkPaths :
          (Exclude(p) \/ fs[p].kind = "none") /\ SnapshotWithin(p, MaxWalkObjects)
    \/ \E pr \in Procs, p \in DirPaths : WalkStart(pr, p)
    \/ \E pr \in Procs, ok \in BOOLEAN : ChildLstat(pr, ok)
    \/ \E pr \in Procs : ChildOpen(pr)
    \/ \E pr \in Procs, stored \in BOOLEAN, saved \in BOOLEAN : StoreTree(pr, stored, saved)
    \/ \E pr \in Procs : WalkReturn(pr)

SpecWalk == Init /\ [][NextWalk]_vars

-----------------------------------------------------------------------------
(* The parent DAG, from the File records alone. *)

ParentSet(objs, h) ==
    {ReadSnapshot(objs, h).parents[i] : i \in 1..Len(ReadSnapshot(objs, h).parents)}

RECURSIVE Closure(_, _)
Closure(objs, S) ==
    LET T == S \cup UNION {ParentSet(objs, h) : h \in S}
    IN  IF T = S THEN S ELSE Closure(objs, T)

(* The snapshots reachable from h by parent edges, h included. *)
AncestorSet(objs, h) == IF h = Nil THEN {} ELSE Closure(objs, {h})

(* The bytes of the contents object of a regular file's snapshot. *)
SnapshotBytes(objs, h) == objs[ReadSnapshot(objs, h).contents].bytes

-----------------------------------------------------------------------------
(* The log of a snapshot (package log), and ancestry (package merge).      *)

(* The breadth-first walk of ReadLog: parents in their order, each         *)
(* snapshot once.                                                          *)
RECURSIVE LogWalk(_, _, _)
LogWalk(objs, queue, visited) ==
    IF queue = <<>> THEN <<>>
    ELSE IF Head(queue) \in visited THEN LogWalk(objs, Tail(queue), visited)
    ELSE <<Head(queue)>>
         \o LogWalk(objs, Tail(queue) \o ReadSnapshot(objs, Head(queue)).parents,
                    visited \cup {Head(queue)})

(* ReadLog(h, limit): the ancestors of h, h first; a negative limit is no limit. *)
ReadLog(objs, h, limit) ==
    LET all == IF h = Nil THEN <<>> ELSE LogWalk(objs, <<h>>, {})
    IN  IF limit < 0 THEN all ELSE SubSeq(all, 1, Min(limit, Len(all)))

(* The snapshots in the unbounded log of h. *)
LogSet(objs, h) == {ReadLog(objs, h, -1)[i] : i \in 1..Len(ReadLog(objs, h, -1))}

(* A faulty variant: the snapshot itself is left out of the comparison. *)
IsAncestor_Strict(objs, base, h) ==
    IF base = Nil THEN TRUE
    ELSE LET snapshotLog == ReadLog(objs, h, -1)
         IN  \E i \in 2..Len(snapshotLog) : snapshotLog[i] = base

IsAncestor(objs, base, h) ==
    IF base = Nil THEN TRUE
    ELSE LET snapshotLog == ReadLog(objs, h, -1)
         IN  \E i \in 1..Len(snapshotLog) : snapshotLog[i] = base

(* Base(a, b): the first snapshot of the log of a that is in the log of b, *)
(* nil if there is none.                                                   *)
Base(objs, a, b) ==
    LET la == ReadLog(objs, a, -1)
        lb == ReadLog(objs, b, -1)
        common == {i \in 1..Len(la) : \E j \in 1..Len(lb) : lb[j] = la[i]}
    IN  IF common = {} THEN Nil
        ELSE la[CHOOSE i \in common : \A j \in common : i <= j]

-----------------------------------------------------------------------------
(* The merge of two snapshots with a base.  A merge state m is a record:   *)
(* objects, h as in a store state, and the numbers of snapshots and trees  *)
(* read, of helper processes run and of objects stored so far, and the     *)
(* merges of children made so far, in the order they were made, with what  *)
(* each returned.                                                          *)

MergeState(objs) ==
    [objects |-> objs, h |-> Nil, reads |-> 0, helpers |-> 0, stores |-> 0, tried |-> <<>>]

Tried(m, path, r) == [m EXCEPT !.tried = Append(@, [path |-> path, h |-> r.h, err |-> r.err])]

StoreCounted(m, obj) == [Store(m, obj) EXCEPT !.stores = @ + 1]

(* An error of the merge: what it cites and the sub-path it names. *)
Err(kind, subPath) == [kind |-> kind, path |-> subPath]

(* What a merge returns: the hash (Nil with an error), the errors joined   *)
(* (none: a nil error), and the merged Tree if there is one.               *)
Result(m, h, err, tree) == [m |-> m, h |-> h, err |-> err, tree |-> tree]

(* The helper process is opaque: run k of a merge exits as runs[k] says.   *)
HelperOutcomes == {[exit |-> 1, stdout |-> <<>>], [exit |-> 0, stdout |-> <<1>>]}
HelperRuns == [1..Len(NameSeq) -> HelperOutcomes]

(* The orders in which a range over a Go map may yield the names. *)
Orders == {o \in [1..Len(NameSeq) -> Names] : \A i, j \in 1..Len(NameSeq) : o[i] = o[j] => i = j}

(* The helper runs and the order of the range that a merge may meet.  They *)
(* show only in a merge that runs the helper or joins several errors: any  *)
(* other merge is taken with the choice OneChoice alone.                   *)
Choices == {[runs |-> r, order |-> o] : r \in HelperRuns, o \in Orders}
OneChoice == CHOOSE hp \in Choices : TRUE
ChoicesThatShow(helpers, err) == IF helpers = 0 /\ Len(err) <= 1 THEN {OneChoice} ELSE Choices

mergeWithHelper(m, subPath, mode, base, src, dest, hp) ==
    LET k == m.helpers + 1
        out == hp.runs[k]
        m1 == [m EXCEPT !.helpers = k]
        s1 == StoreCounted(m1, Blob(out.stdout))
        s2 == StoreCounted(s1, FileString([mode |-> mode, contents |-> s1.h,
                                           parents |-> <<src, dest>>]))
    IN  IF out.exit # 0
        THEN Result(m1, Nil, <<Err("helper", subPath)>>, EmptyTree)
        ELSE Result(s2, s2.h, <<>>, EmptyTree)

TreeGet(tree, n) == IF n \in DOMAIN tree THEN tree[n] ELSE Nil

(* Whether the contents of a directory snapshot parse as a Tree. *)
TreeReadable(objs, f) == objs[f.contents].kind = "tree"

(* A faulty variant: the third trivial case returns the destination. *)
TrivialCase_KeepDest(base, src, dest) ==
    IF src = dest THEN [hit |-> TRUE, h |-> src]
    ELSE IF src = base THEN [hit |-> TRUE, h |-> dest]
    ELSE IF dest = base THEN [hit |-> TRUE, h |-> dest]
    ELSE [hit |-> FALSE, h |-> Nil]

(* A faulty variant: a destination that is the base is merged like any other. *)
TrivialCase_NoFastForward(base, src, dest) ==
    IF src = dest THEN [hit |-> TRUE, h |-> src]
    ELSE IF src = base THEN [hit |-> TRUE, h |-> dest]
    ELSE [hit |-> FALSE, h |-> Nil]

(* The trivial cases: the result is one of the two snapshots. *)
TrivialCase(base, src, dest) ==
    IF src = dest THEN [hit |-> TRUE, h |-> src]
    ELSE IF src = base THEN [hit |-> TRUE, h |-> dest]
    ELSE IF dest = base THEN [hit |-> TRUE, h |-> src]
    ELSE [hit |-> FALSE, h |-> Nil]

(* A faulty variant: only a source that is nil counts as deleted. *)
Deleted_SrcOnly(src, dest) == src = Nil

(* The nested snapshot was deleted in the source or in the destination. *)
Deleted(src, dest) == src = Nil \/ dest = Nil

(* A faulty variant: the destination is checked before the source. *)
RolledBack_DestFirst(objs, subPath, base, src, dest) ==
    IF ~IsAncestor(objs, base, dest) THEN <<Err("destination", subPath)>>
    ELSE IF ~IsAncestor(objs, base, src) THEN <<Err("source", subPath)>>
    ELSE <<>>

(* The changes of the base were rolled back in the source, or in the       *)
(* destination.                                                            *)
RolledBack(objs, subPath, base, src, dest) ==
    IF ~IsAncestor(objs, base, src) THEN <<Err("source", subPath)>>
    ELSE IF ~IsAncestor(objs, base, dest) THEN <<Err("destination", subPath)>>
    ELSE <<>>

(* A faulty variant: the option to force the source's mode is not looked at. *)
ModeMismatch_Forced(srcFile, destFile, forceKeepMode) == srcFile.mode # destFile.mode

(* The mode lines of the two directories do not match, and the source's is *)
(* not forced.                                                             *)
ModeMismatch(srcFile, destFile, forceKeepMode) ==
    srcFile.mode # destFile.mode /\ ~forceKeepMode

(* A faulty variant: the merged File takes the destination's mode. *)
MergedFile_DestMode(srcFile, destFile, contentsHash, src, dest) ==
    [mode |-> destFile.mode, contents |-> contentsHash, parents |-> <<src, dest>>]

(* A faulty variant: the merged File has the source as its only parent. *)
MergedFile_SrcOnly(srcFile, destFile, contentsHash, src, dest) ==
    [mode |-> srcFile.mode, contents |-> contentsHash, parents |-> <<src>>]

(* A faulty variant: the merged File names, in place of the destination,   *)
(* the object stored next after its contents, which is the File itself.    *)
MergedFile_OwnParent(srcFile, destFile, contentsHash, src, dest) ==
    [mode |-> srcFile.mode, contents |-> contentsHash, parents |-> <<src, contentsHash + 1>>]

MergedFile(srcFile, destFile, contentsHash, src, dest) ==
    [mode |-> srcFile.mode, contents |-> contentsHash, parents |-> <<src, dest>>]

(* A faulty variant: the name is put in the merged tree whatever the merge *)
(* of the child returned.                                                  *)
AddMerged_Always(p, mergedChild, mergedTree) == (p :> mergedChild) @@ mergedTree

(* The merged child is put in the merged tree if it is not nil. *)
AddMerged(p, mergedChild, mergedTree) ==
    IF mergedChild # Nil THEN (p :> mergedChild) @@ mergedTree ELSE mergedTree

RECURSIVE mergeWithBase(_, _, _, _, _, _, _)
RECURSIVE MergeChildren(_, _, _, _, _, _, _, _)

(* A faulty variant: the loop over subpaths ends at the first child that   *)
(* fails.                                                                  *)
RECURSIVE MergeChildren_FirstError(_, _, _, _, _, _, _, _)
MergeChildren_FirstError(m, subPath, i, baseTree, srcTree, destTree, forceKeepMode, hp) ==
    IF i > Len(hp.order) THEN [m |-> m, tree |-> EmptyTree, errs |-> <<>>]
    ELSE LET p == hp.order[i]
             inSubpaths == p \in DOMAIN srcTree \cup DOMAIN destTree
             r == mergeWithBase(m, Join(subPath, p), TreeGet(baseTree, p),
                                TreeGet(srcTree, p), TreeGet(destTree, p),
                                forceKeepMode, hp)
             rest == MergeChildren_FirstError(
                         IF inSubpaths THEN Tried(r.m, Join(subPath, p), r) ELSE m,
                         subPath, i + 1, baseTree, srcTree, destTree, forceKeepMode, hp)
         IN  IF ~inSubpaths THEN rest
             ELSE IF r.err # <<>>
             THEN [m |-> Tried(r.m, Join(subPath, p), r), tree |-> EmptyTree, errs |-> r.err]
             ELSE [m |-> rest.m,
                   tree |-> IF r.h # Nil THEN (p :> r.h) @@ rest.tree ELSE rest.tree,
                   errs |-> r.err \o rest.errs]

(* The loop over subpaths, from the i-th name of the order on. *)
MergeChildren(m, subPath, i, baseTree, srcTree, destTree, forceKeepMode, hp) ==
    IF i > Len(hp.order) THEN [m |-> m, tree |-> EmptyTree, errs |-> <<>>]
    ELSE LET p == hp.order[i]
             inSubpaths == p \in DOMAIN srcTree \cup DOMAIN destTree
             r == mergeWithBase(m, Join(subPath, p), TreeGet(baseTree, p),
                                TreeGet(srcTree, p), TreeGet(destTree, p),
                                forceKeepMode, hp)
             rest == MergeChildren(IF inSubpaths THEN Tried(r.m, Join(subPath, p), r) ELSE m,
                                   subPath, i + 1,
                                   baseTree, srcTree, destTree, forceKeepMode, hp)
         IN  IF ~inSubpaths THEN rest
             ELSE [m |-> rest.m,
                   tree |-> AddMerged(p, r.h, rest.tree),
                   errs |-> r.err \o rest.errs]

mergeWithBase(m, subPath, base, src, dest, forceKeepMode, hp) ==
    LET trivial == TrivialCase(base, src, dest)
        rolledBack == RolledBack(m.objects, subPath, base, src, dest)
        srcFile == ReadSnapshot(m.objects, src)
        destFile == ReadSnapshot(m.objects, dest)
        m1 == [m EXCEPT !.reads = @ + (IF base # Nil THEN 3 ELSE 2)]
        baseIsDir == IF base = Nil THEN FALSE ELSE IsDir(ReadSnapshot(m.objects, base))
        m2 == [m1 EXCEPT !.reads = @ + (IF baseIsDir THEN 3 ELSE 2)]
        baseTree == IF baseIsDir
                    THEN ListDirectorySnapshotContents(m.objects, ReadSnapshot(m.objects, base))
                    ELSE EmptyTree
        c == MergeChildren(m2, subPath, 1, baseTree,
                           ListDirectorySnapshotContents(m.objects, srcFile),
                           ListDirectorySnapshotContents(m.objects, destFile),
                           forceKeepMode, hp)
        nestedErrors == c.errs \o (IF ModeMismatch(srcFile, destFile, forceKeepMode)
                                   THEN <<Err("mode", subPath)>> ELSE <<>>)
        s1 == StoreCounted(c.m, TreeString(c.tree))
        s2 == StoreCounted(s1, FileString(MergedFile(srcFile, destFile, s1.h, src, dest)))
    IN  IF trivial.hit THEN Result(m, trivial.h, <<>>, EmptyTree)
        ELSE IF Deleted(src, dest)
        THEN Result(m, Nil, <<Err("deleted", subPath)>>, EmptyTree)
        ELSE IF rolledBack # <<>> THEN Result(m, Nil, rolledBack, EmptyTree)
        ELSE IF IsLink(srcFile) \/ IsLink(destFile)
        THEN Result(m1, Nil, <<Err("symlink", subPath)>>, EmptyTree)
        ELSE IF ~(IsDir(srcFile) /\ IsDir(destFile))
        THEN mergeWithHelper(m1, subPath, destFile.mode, base, src, dest, hp)
        ELSE IF ~TreeReadable(m.objects, srcFile) \/ ~TreeReadable(m.objects, destFile)
                \/ (baseIsDir /\ ~TreeReadable(m.objects, ReadSnapshot(m.objects, base)))
        THEN Result(m1, Nil, <<Err("tree", subPath)>>, EmptyTree)
        ELSE IF nestedErrors # <<>> THEN Result(c.m, Nil, nestedErrors, EmptyTree)
        ELSE Result(s2, s2.h, <<>>, c.tree)

-----------------------------------------------------------------------------
(* Checkout and Merge.  A working state w is a record: fs and latest as    *)
(* the variables, and err, whether the checkout failed.                    *)

RemoveAll(f, p) == [q \in Paths |-> IF q \in Under(p) THEN NoNode ELSE f[q]]

RECURSIVE Checkout(_, _, _, _)
RECURSIVE CheckoutChildren(_, _, _, _, _)

CheckoutChildren(objs, w, tree, p, i) ==
    IF i > Len(NameSeq) THEN w
    ELSE IF NameSeq[i] \in DOMAIN tree
    THEN CheckoutChildren(objs, Checkout(objs, w, tree[NameSeq[i]], Join(p, NameSeq[i])),
                          tree, p, i + 1)
    ELSE CheckoutChildren(objs, w, tree, p, i + 1)

(* Checkout(h, p): the files of the snapshot h written at p, and h recorded *)
(* as the snapshot of p.                                                    *)
Checkout(objs, w, h, p) ==
    IF h = Nil THEN [w EXCEPT !.err = TRUE]
    ELSE LET f == ReadSnapshot(objs, h)
             node == [kind |-> f.mode.type, perm |-> f.mode.perm,
                      data |-> IF IsDir(f) THEN <<>> ELSE objs[f.contents].bytes,
                      mtime |-> IF f.mode.type = "file" THEN Truncate(now) ELSE 0]
         IN  IF IsDir(f) /\ ~TreeReadable(objs, f) THEN [w EXCEPT !.err = TRUE]
             ELSE IF IsDir(f)
             THEN CheckoutChildren(objs,
                      [w EXCEPT !.fs[p] = [node EXCEPT !.data = <<>>], !.latest[p] = h],
                      ListDirectorySnapshotContents(objs, f), p, 1)
             ELSE [w EXCEPT !.fs[p] = node, !.latest[p] = h]

(* Whether the paths of the model hold the files of the snapshot h at p. *)
RECURSIVE Fits(_, _, _)
Fits(objs, h, p) ==
    /\ p \in Paths
    /\ IF h = Nil THEN TRUE
       ELSE LET f == ReadSnapshot(objs, h)
            IN  IF IsDir(f) /\ TreeReadable(objs, f)
                THEN \A n \in DOMAIN ListDirectorySnapshotContents(objs, f) :
                        Fits(objs, ListDirectorySnapshotContents(objs, f)[n], Join(p, n))
                ELSE TRUE

(* A faulty variant: the source is never taken as merged in already. *)
AlreadyMerged_Never(mergeBase, src) == FALSE

(* The source has already been merged in. *)
AlreadyMerged(mergeBase, src) == mergeBase = src

(* A faulty variant: the error of the merge is dropped. *)
MergeFailed_Ignored(err) == FALSE

MergeFailed(err) == err # <<>>

(* What Merge(src, dest) does, from the store state r that Current(dest)   *)
(* left: the branch it takes, the store and the working state after it.    *)
MergeOutcome(r, src, dest, hp) ==
    LET destPrevHash == r.h
        mergeBase == Base(r.objects, src, destPrevHash)
        mr == mergeWithBase(MergeState(r.objects), dest, mergeBase, src, destPrevHash,
                            FALSE, hp)
        w0 == [fs |-> fs, latest |-> r.latest, err |-> FALSE]
        kept == [branch |-> "none", objects |-> r.objects, w |-> w0, mergeErr |-> <<>>,
                 result |-> destPrevHash, removed |-> FALSE, checkedOut |-> FALSE,
                 helpers |-> 0]
    IN  IF destPrevHash = Nil
        THEN [kept EXCEPT !.branch = "checkout", !.w = Checkout(r.objects, w0, src, dest),
                          !.result = src, !.checkedOut = TRUE]
        ELSE IF AlreadyMerged(mergeBase, src)
        THEN [kept EXCEPT !.branch = "merged already"]
        ELSE IF MergeFailed(mr.err)
        THEN [kept EXCEPT !.branch = "conflict", !.objects = mr.m.objects,
                          !.mergeErr = mr.err, !.w.err = TRUE, !.helpers = mr.m.helpers]
        ELSE [kept EXCEPT !.branch = "merged", !.objects = mr.m.objects,
                          !.mergeErr = mr.err,
                          !.w = Checkout(mr.m.objects,
                                         [w0 EXCEPT !.fs = RemoveAll(fs, dest)], mr.h, dest),
                          !.result = mr.h, !.removed = TRUE, !.checkedOut = TRUE,
                          !.helpers = mr.m.helpers]

MaxMergeObjects == 10

(* The outcome o with a Checkout that fails before it has written a file: *)
(* what RemoveAll took away stays away, and the index is as Current(dest)  *)
(* left it.                                                                *)
CheckoutFailed(o, r, dest) ==
    [o EXCEPT !.w = [fs |-> IF o.removed THEN RemoveAll(fs, dest) ELSE fs,
                     latest |-> r.latest, err |-> TRUE]]

(* Merge(src, dest), the whole of it with nothing interleaved; written is  *)
(* whether the Checkout it ends with, if any, could write its files.       *)
MergeStep(src, dest, hp, written) ==
    \E r \in {Current(StoreState, dest)} :
      \E done \in {MergeOutcome(r, src, dest, hp)} :
       \E o \in {IF written THEN done ELSE CheckoutFailed(done, r, dest)} :
        /\ AllIdle
        /\ Len(o.objects) <= MaxMergeObjects
        /\ o.checkedOut => Fits(o.objects, o.result, dest)
        /\ ~written => o.checkedOut
        /\ objects' = o.objects
        /\ latest' = o.w.latest
        /\ cache' = r.cache
        /\ fs' = o.w.fs
        /\ ret' = [q \in Paths |-> IF q \in Found(r.seen) THEN r.seen[q] ELSE ret[q]]
        /\ settled' = [q \in Paths |-> IF q \in Above(dest) \cup Under(dest)
                                       THEN None ELSE settled[q]]
        /\ last' = [op |-> "Merge", src |-> src, dest |-> dest, branch |-> o.branch,
                    destPrev |-> r.h, destLatest |-> r.latest[dest],
                    mergeErr |-> o.mergeErr, err |-> o.w.err,
                    result |-> o.result, removed |-> o.removed,
                    checkedOut |-> o.checkedOut, fs0 |-> fs,
                    again |-> /\ last.op = "Merge"
                              /\ ~last.err
                              /\ last.src = src
                              /\ last.dest = dest,
                    first |-> IF last.op = "Merge" THEN last.result ELSE Nil]
        /\ UNCHANGED <<now, snap, signatures, pub>>

Merge(src, dest, hp) == MergeStep(src, dest, hp, TRUE)

(* A Merge whose Checkout fails. *)
MergeCheckoutFails(src, dest, hp) == MergeStep(src, dest, hp, FALSE)

-----------------------------------------------------------------------------
(* Calls of mergeWithBase and IsAncestor on any snapshots of the store,    *)
(* each made when a snapshot has just been taken.                          *)

Snapshots == FileHashes(objects) \cup {Nil}

(* The merges on record in a store: the File records with two parents. *)
MaxMerges == 1
Merges(objs) == Cardinality({h \in FileHashes(objs) : Len(ReadSnapshot(objs, h).parents) = 2})

CallDue == last.op = "Current" /\ Merges(objects) < MaxMerges

MergeWithBaseWithin(subPath, base, src, dest, forceKeepMode, hp, max) ==
    /\ CallDue
    /\ \E r \in {mergeWithBase(MergeState(objects), subPath, base, src, dest,
                               forceKeepMode, hp)} :
        /\ Len(r.m.objects) <= max
        /\ objects' = r.m.objects
        /\ last' = [op |-> "mergeWithBase", subPath |-> subPath, base |-> base,
                    src |-> src, dest |-> dest, forceKeepMode |-> forceKeepMode,
                    h |-> r.h, err |-> r.err, tree |-> r.tree,
                    reads |-> r.m.reads, helpers |-> r.m.helpers, stores |-> r.m.stores,
                    tried |-> r.m.tried, objects0 |-> objects]
    /\ UNCHANGED <<latest, cache, fs, now, snap, ret, settled, signatures, pub>>

MergeWithBaseCall(subPath, base, src, dest, forceKeepMode, hp) ==
    MergeWithBaseWithin(subPath, base, src, dest, forceKeepMode, hp, MaxObjects)

IsAncestorCall(base, h) ==
    /\ last.op = "Current"
    /\ last' = [op |-> "IsAncestor", base |-> base, h |-> h,
                res |-> IsAncestor(objects, base, h)]
    /\ UNCHANGED <<objects, latest, cache, fs, now, snap, ret, settled, signatures, pub>>

(* The choices that show in the call, none if no call is due. *)
CallChoices(subPath, base, src, dest, forceKeepMode) ==
    IF ~CallDue THEN {}
    ELSE LET r == mergeWithBase(MergeState(objects), subPath, base, src, dest,
                                forceKeepMode, OneChoice)
         IN  ChoicesThatShow(r.m.helpers, r.err)

(* SpecMergeBase: a directory and a file in it that change, snapshots of   *)
(* them, and merges of the snapshots in the store.                         *)
NextMergeBase ==
    \/ \E p \in DirPaths : MkDir(p)
    \/ \E p \in FilePaths, d \in Data : WriteFile(p, d)
    \/ \E p \in DirPaths : Chmod(p)
    \/ \E p \in DirPaths : Snapshot(p)
    \/ \E base \in Snapshots, src \in Snapshots, dest \in Snapshots,
          forceKeepMode \in BOOLEAN :
          \E hp \in CallChoices(<<"x">>, base, src, dest, forceKeepMode) :
              MergeWithBaseCall(<<"x">>, base, src, dest, forceKeepMode, hp)
    \/ \E base \in 0..Len(objects), h \in FileHashes(objects) : IsAncestorCall(base, h)

SpecMergeBase == Init /\ [][NextMergeBase]_vars

(* SpecMergeTree: a directory with two files in it, snapshots of it, and   *)
(* merges of the directory snapshots in the store, with every order in     *)
(* which the names can come out of the map of subpaths and every outcome   *)
(* of the merge helper.                                                    *)
MaxTreeObjects == 8
TreePaths == {<<"x", "a">>, <<"x", "b">>}
TreeData == {<<1>>}
Directories(objs) == {h \in FileHashes(objs) : IsDir(ReadSnapshot(objs, h))}


NextMergeTree ==
    \/ \E p \in DirPaths : MkDir(p)
    \/ \E p \in TreePaths, d \in TreeData : WriteFile(p, d)
    \/ \E p \in TreePaths \cup DirPaths : fs[p].perm = 0 /\ Chmod(p)
    \/ \E p \in DirPaths : SnapshotWithin(p, MaxTreeObjects)
    \/ \E base \in Directories(objects) \cup {Nil}, src \in Directories(objects),
          dest \in Directories(objects), forceKeepMode \in BOOLEAN :
          \E hp \in CallChoices(<<"x">>, base, src, dest, forceKeepMode) :
              MergeWithBaseWithin(<<"x">>, base, src, dest, forceKeepMode, hp,
                                  MaxTreeObjects)

SpecMergeTree == Init /\ [][NextMergeTree]_vars

(* SpecMergeSides: the same directory with files written and removed, and  *)
(* merges of its snapshots where a name is missing on a side.              *)
MaxSideObjects == 9

NextMergeSides ==
    \/ \E p \in DirPaths : MkDir(p)
    \/ \E p \in TreePaths, d \in TreeData : WriteFile(p, d)
    \/ \E p \in TreePaths : Remove(p)
    \/ \E p \in DirPaths : SnapshotWithin(p, MaxSideObjects)
    \/ \E base \in Directories(objects) \cup {Nil}, src \in Directories(objects),
          dest \in Directories(objects) :
          \E hp \in CallChoices(<<"x">>, base, src, dest, FALSE) :
              MergeWithBaseWithin(<<"x">>, base, src, dest, FALSE, hp, MaxSideObjects)

SpecMergeSides == Init /\ [][NextMergeSides]_vars

(* SpecMerge: two working directories, snapshots of the one and merges of  *)
(* the snapshots in its log into the other.                                *)
MergeSources == {<<"x">>}
MergeDests == {<<"y">>}
MergeWrites == {<< <<"x", "a">>, <<1>> >>, << <<"y", "a">>, <<2>> >>, << <<"y", "b">>, <<1>> >>}

MergeChoices(src, dest) ==
    LET o == MergeOutcome(Current(StoreState, dest), src, dest, OneChoice)
    IN  ChoicesThatShow(o.helpers, o.mergeErr)

NextMerge ==
    \/ Tick
    \/ \E p \in MergeSources : MkDir(p)
    \/ \E w \in MergeWrites : WriteFile(w[1], w[2])
    \/ \E p \in MergeDests : Chmod(p)
    \/ \E p \in MergeSources : Snapshot(p)
    \/ \E p \in MergeSources, dest \in MergeDests :
          \E src \in AncestorSet(objects, latest[p]) :
              \E hp \in MergeChoices(src, dest) : Merge(src, dest, hp)

SpecMerge == Init /\ [][NextMerge]_vars

(* SpecMergeCheckout: the same with merges whose Checkout fails, and the  *)
(* clock standing still.                                                   *)
NextMergeCheckout ==
    \/ \E p \in MergeSources : MkDir(p)
    \/ \E w \in MergeWrites : WriteFile(w[1], w[2])
    \/ \E p \in MergeDests : Chmod(p)
    \/ \E p \in MergeSources : Snapshot(p)
    \/ \E p \in MergeSources, dest \in MergeDests :
          \E src \in AncestorSet(objects, latest[p]) :
              \E hp \in MergeChoices(src, dest) : Merge(src, dest, hp)
    \/ \E p \in MergeSources, dest \in MergeDests :
          \E src \in AncestorSet(objects, latest[p]) :
              \E hp \in MergeChoices(src, dest) : MergeCheckoutFails(src, dest, hp)

SpecMergeCheckout == Init /\ [][NextMergeCheckout]_vars

-----------------------------------------------------------------------------
(* Package publish: signing a snapshot and pulling signatures from mirrors. *)

(* Hash.String and snapshot.ParseHash: <algo>:<hex>, the nil hash is the   *)
(* empty string.                                                           *)
HashString(h) == IF h = Nil THEN <<>> ELSE <<"sha256", h>>
ParseHash(str) ==
    IF str = <<>> THEN [h |-> Nil, err |-> FALSE]
    ELSE IF Len(str) = 2 /\ str[1] = "sha256" THEN [h |-> str[2], err |-> FALSE]
    ELSE [h |-> Nil, err |-> TRUE]

(* Identity.String and URL.String. *)
IdentityString(id) == <<id.ns, id.rest>>
URLString(u) == <<u.scheme, u.rest>>

LatestSignatureForIdentity(sigs, id) == sigs[id]
UpdateSignatureForIdentity(sigs, id, h) == [sigs EXCEPT ![id] = h]

(* Verify: the verify helper recovers the signed snapshot of a signature;  *)
(* no signature attests no snapshot.                                       *)
Verify(id, signature) ==
    IF signature = Nil THEN [signed |-> Nil, err |-> FALSE]
    ELSE IF signature \in Rejected THEN [signed |-> Nil, err |-> TRUE]
    ELSE [signed |-> Attested(signature), err |-> FALSE]

(* What a helper process does: whether it could be started, whether its    *)
(* standard output could be read to the end, what it printed and how it    *)
(* ended (Killed: by a signal).                                            *)
Killed == Nil - 1
ExitCodes == {0, 1, Killed}
Garbage == <<"?">>
Printed == {<<>>, Garbage} \cup {HashString(sig) : sig \in Sigs}
NotRun == [started |-> FALSE, read |-> FALSE, stdout |-> <<>>, exit |-> 1]
ReadFailed == [started |-> TRUE, read |-> FALSE, stdout |-> <<>>, exit |-> 1]
Ran(stdout, exit) == [started |-> TRUE, read |-> TRUE, stdout |-> stdout, exit |-> exit]
HelperResults == {NotRun, ReadFailed} \cup {Ran(o, e) : o \in Printed, e \in ExitCodes}

(* The configuration: the pull mirrors of each identity, and the pull      *)
(* mirrors of all of them.                                                 *)
Mirror(n) == [url |-> [scheme |-> "file", rest |-> n], flags |-> <<<<"-v", n>>>>]
Settings ==
    [identities |->
        <<[name |-> <<"ex", "w">>, pullMirrors |-> <<Mirror(3)>>],
          [name |-> <<"ex", "u">>, pullMirrors |-> <<Mirror(1)>>]>>,
     additionalPullMirrors |-> <<[url |-> NoURL, flags |-> <<>>], Mirror(2)>>]

(* The mirrors Pull goes through for id, in its order: those of the        *)
(* identity's own settings, then the additional ones.                      *)
RECURSIVE IdentityMirrors(_, _, _)
IdentityMirrors(settings, id, i) ==
    IF i > Len(settings.identities) THEN <<>>
    ELSE (IF settings.identities[i].name = IdentityString(id)
          THEN settings.identities[i].pullMirrors ELSE <<>>)
         \o IdentityMirrors(settings, id, i + 1)
PullMirrors(settings, id) == IdentityMirrors(settings, id, 1) \o settings.additionalPullMirrors

(* pullFrom: run rvcs-pull-<scheme> and parse what it printed. *)
pullFrom(m, id, prev, out) ==
    LET args == m.flags \o <<IdentityString(id)>>
                \o (IF prev # Nil THEN <<HashString(prev)>> ELSE <<>>)
        parsed == ParseHash(out.stdout)
        run == [command |-> <<"rvcs-pull", m.url.scheme>>, args |-> args, out |-> out]
    IN  IF m.url = NoURL THEN [h |-> prev, err |-> FALSE, runs |-> <<>>]
        ELSE IF ~out.started \/ ~out.read \/ parsed.err
             THEN [h |-> Nil, err |-> TRUE, runs |-> <<run>>]
        ELSE [h |-> parsed.h, err |-> FALSE, runs |-> <<run>>]

(* A faulty variant: the pulled signature is taken without being verified. *)
pullFromAndVerify_Unverified(m, id, prevSignature, prevSigned, out) ==
    LET p == pullFrom(m, id, prevSignature, out)
        step(signature, signed, err) ==
            [signature |-> signature, signed |-> signed, err |-> err,
             m |-> m, prev |-> prevSignature, pulled |-> p.h, runs |-> p.runs]
    IN  IF p.err THEN step(Nil, Nil, "pull")
        ELSE step(p.h, prevSigned, "")

(* pullFromAndVerify: the pulled signature is verified when it differs     *)
(* from the one held.                                                      *)
pullFromAndVerify(m, id, prevSignature, prevSigned, out) ==
    LET p == pullFrom(m, id, prevSignature, out)
        v == Verify(id, p.h)
        step(signature, signed, err) ==
            [signature |-> signature, signed |-> signed, err |-> err,
             m |-> m, prev |-> prevSignature, pulled |-> p.h, runs |-> p.runs]
    IN  IF p.err THEN step(Nil, Nil, "pull")
        ELSE IF p.h = prevSignature THEN step(prevSignature, prevSigned, "")
        ELSE IF v.err THEN step(Nil, Nil, "verify")
        ELSE step(p.h, v.signed, "")

(* The two loops of Pull over the mirrors: the steps made, up to and       *)
(* including the first that fails.                                         *)
RECURSIVE PullSteps(_, _, _, _, _, _)
PullSteps(mirrors, i, id, signature, signed, outs) ==
    IF i > Len(mirrors) THEN <<>>
    ELSE LET s == pullFromAndVerify(mirrors[i], id, signature, signed, outs[i])
         IN  IF s.err # "" THEN <<s>>
             ELSE <<s>> \o PullSteps(mirrors, i + 1, id, s.signature, s.signed, outs)

Failed(trace) == trace # <<>> /\ trace[Len(trace)].err # ""

(* A faulty variant: a Pull that fails at a mirror records the signature   *)
(* verified before that mirror.                                            *)
Pull_KeepVerified(sigs, settings, id, outs) ==
    LET signature == LatestSignatureForIdentity(sigs, id)
        v == Verify(id, signature)
        trace == PullSteps(PullMirrors(settings, id), 1, id, signature, v.signed, outs)
        end == trace[Len(trace)]
        res(s, signature1, signed1, err) ==
            [signatures |-> s, signature |-> signature1, signed |-> signed1, err |-> err,
             start |-> signature, trace |-> IF v.err THEN <<>> ELSE trace]
    IN  IF v.err THEN res(sigs, Nil, Nil, "previous")
        ELSE IF Failed(trace) THEN res(UpdateSignatureForIdentity(sigs, id, end.prev),
                                       Nil, Nil, end.err)
        ELSE IF trace = <<>> THEN res(UpdateSignatureForIdentity(sigs, id, signature),
                                      signature, v.signed, "")
        ELSE res(UpdateSignatureForIdentity(sigs, id, end.signature),
                 end.signature, end.signed, "")

(* Pull: the signature held, verified, then the mirrors in turn, then the  *)
(* identity index.                                                         *)
Pull(sigs, settings, id, outs) ==
    LET signature == LatestSignatureForIdentity(sigs, id)
        v == Verify(id, signature)
        trace == PullSteps(PullMirrors(settings, id), 1, id, signature, v.signed, outs)
        end == trace[Len(trace)]
        res(s, signature1, signed1, err) ==
            [signatures |-> s, signature |-> signature1, signed |-> signed1, err |-> err,
             start |-> signature, trace |-> IF v.err THEN <<>> ELSE trace]
    IN  IF v.err THEN res(sigs, Nil, Nil, "previous")
        ELSE IF Failed(trace) THEN res(sigs, Nil, Nil, end.err)
        ELSE IF trace = <<>> THEN res(UpdateSignatureForIdentity(sigs, id, signature),
                                      signature, v.signed, "")
        ELSE res(UpdateSignatureForIdentity(sigs, id, end.signature),
                 end.signature, end.signed, "")

(* Sign: run rvcs-sign-<ns>, parse what it printed, record it as the       *)
(* identity's latest signature.  The helper is started and its output read *)
(* to the end; how the process ends is not looked at.                      *)
Sign(sigs, id, h, prevSignature, out) ==
    LET parsed == ParseHash(out.stdout)
        run == [command |-> <<"rvcs-sign", id.ns>>,
                args |-> <<<<id.rest>>, HashString(h)>>
                         \o (IF prevSignature # Nil THEN <<HashString(prevSignature)>> ELSE <<>>),
                out |-> out]
        res(s, h1, err, runs) == [signatures |-> s, h |-> h1, err |-> err, runs |-> runs]
    IN  IF id = NoIdentity THEN res(sigs, Nil, "identity", <<>>)
        ELSE IF h = Nil THEN res(sigs, Nil, "hash", <<>>)
        ELSE IF ~out.started THEN res(sigs, Nil, "start", <<run>>)
        ELSE IF ~out.read THEN res(sigs, Nil, "read", <<run>>)
        ELSE IF parsed.err THEN res(sigs, Nil, "parse", <<run>>)
        ELSE res(UpdateSignatureForIdentity(sigs, id, parsed.h), parsed.h, "", <<run>>)

-----------------------------------------------------------------------------
(* SpecPublish: Sign and Pull, one at a time, on the identity index.       *)

(* One result for the helper of each mirror that has a URL. *)
Outs(mirrors, results) ==
    LET runs == {i \in 1..Len(mirrors) : mirrors[i].url # NoURL}
    IN  {[i \in 1..Len(mirrors) |-> IF i \in runs THEN f[i] ELSE NotRun] :
            f \in [runs -> results]}

PubAllIdle == \A pr \in PubProcs : pub[pr].pc = "idle"

(* The running operations that have read the index see no more of it. *)
Overtaken(pr) ==
    [q \in PubProcs |-> IF q = pr THEN PubIdle
                        ELSE IF pub[q].pc = "idle" THEN pub[q]
                        ELSE [pub[q] EXCEPT !.stale = TRUE]]

PullDone(id, start, trace, signature, signed, err, stale) ==
    [op |-> "Pull", id |-> id, start |-> start, trace |-> trace, signature |-> signature,
     signed |-> signed, err |-> err, stale |-> stale, signatures0 |-> signatures]

PullCall(id, outs) ==
    \E r \in {Pull(signatures, Settings, id, outs)} :
        /\ PubAllIdle
        /\ signatures' = r.signatures
        /\ last' = PullDone(id, r.start, r.trace, r.signature, r.signed, r.err, FALSE)
        /\ UNCHANGED <<objects, latest, cache, fs, now, snap, ret, settled, pub>>

SignCall(id, h, prevSignature, out) ==
    \E r \in {Sign(signatures, id, h, prevSignature, out)} :
        /\ signatures' = r.signatures
        /\ pub' = IF r.err = "" THEN Overtaken(0) ELSE pub
        /\ last' = [op |-> "Sign", id |-> id, h |-> h, prevSignature |-> prevSignature,
                    out |-> out, res |-> r.h, err |-> r.err, runs |-> r.runs,
                    signatures0 |-> signatures]
        /\ UNCHANGED <<objects, latest, cache, fs, now, snap, ret, settled>>

SignHashes == {Nil, Attested(1)}

NextPublish ==
    \/ \E id \in Identities :
          \E outs \in Outs(PullMirrors(Settings, id), HelperResults) : PullCall(id, outs)
    \/ \E id \in Identities \cup {NoIdentity}, h \in SignHashes, out \in HelperResults :
          \E prev \in {Nil} \cup (IF id \in Identities THEN {signatures[id]} ELSE {}) :
              SignCall(id, h, prev, out)

SpecPublish == Init /\ [][NextPublish]_vars

-----------------------------------------------------------------------------
(* SpecPublishRace: Pull in steps, each helper taking its time, with the   *)
(* other publish operations on the same identity interleaved.              *)

(* Pull, line 74-81: the signature held is read and verified. *)
PullRead(pr, id) ==
    LET signature == LatestSignatureForIdentity(signatures, id)
        v == Verify(id, signature)
    IN  /\ pub[pr].pc = "idle"
        /\ IF v.err
           THEN /\ last' = PullDone(id, signature, <<>>, Nil, Nil, "previous", FALSE)
                /\ pub' = pub
           ELSE /\ pub' = [pub EXCEPT ![pr] = [PubIdle EXCEPT !.pc = "mirrors", !.id = id,
                                                               !.start = signature,
                                                               !.signature = signature,
                                                               !.signed = v.signed, !.i = 1]]
                /\ last' = last
        /\ UNCHANGED <<objects, latest, cache, fs, now, snap, ret, settled, signatures>>

(* Pull, lines 82-97: one mirror. *)
PullMirror(pr, out) ==
    LET l == pub[pr]
        mirrors == PullMirrors(Settings, l.id)
    IN  /\ l.pc = "mirrors"
        /\ l.i <= Len(mirrors)
        /\ (mirrors[l.i].url = NoURL) <=> (out = NotRun)
        /\ \E s \in {pullFromAndVerify(mirrors[l.i], l.id, l.signature, l.signed, out)} :
              IF s.err # ""
              THEN /\ pub' = [pub EXCEPT ![pr] = PubIdle]
                   /\ last' = PullDone(l.id, l.start, Append(l.trace, s), Nil, Nil, s.err, l.stale)
              ELSE /\ pub' = [pub EXCEPT ![pr].signature = s.signature, ![pr].signed = s.signed,
                                         ![pr].i = l.i + 1, ![pr].trace = Append(l.trace, s)]
                   /\ last' = last
        /\ UNCHANGED <<objects, latest, cache, fs, now, snap, ret, settled, signatures>>

(* Pull, lines 98-101: the identity index is written. *)
PullUpdate(pr) ==
    LET l == pub[pr]
    IN  /\ l.pc = "mirrors"
        /\ l.i > Len(PullMirrors(Settings, l.id))
        /\ signatures' = UpdateSignatureForIdentity(signatures, l.id, l.signature)
        /\ pub' = Overtaken(pr)
        /\ last' = PullDone(l.id, l.start, l.trace, l.signature, l.signed, "", l.stale)
        /\ UNCHANGED <<objects, latest, cache, fs, now, snap, ret, settled>>

RaceResults == {NotRun} \cup {Ran(HashString(sig), 0) : sig \in Sigs}

NextPublishRace ==
    \/ \E pr \in PubProcs, id \in Identities : PullRead(pr, id)
    \/ \E pr \in PubProcs, out \in RaceResults : PullMirror(pr, out)
    \/ \E pr \in PubProcs : PullUpdate(pr)
    \/ \E id \in Identities, out \in RaceResults : SignCall(id, Attested(1), signatures[id], out)

SpecPublishRace == Init /\ [][NextPublishRace]_vars

-----------------------------------------------------------------------------
(* SpecCancel: Sign and Pull with helpers that take their time, and the    *)
(* context of the operation cancelled while a helper runs.                 *)

(* Whether the cancelled context makes the running helper be signaled.     *)
(* The helpers are made with exec.Command, which knows of no context.      *)
HelperSignaled(cancelled) == FALSE

(* The context is cancelled while the helper of pr runs. *)
Cancel(pr) ==
    /\ pub[pr].helper
    /\ ~pub[pr].cancelled
    /\ pub' = [pub EXCEPT ![pr].cancelled = TRUE, ![pr].signaled = HelperSignaled(TRUE)]
    /\ last' = last
    /\ UNCHANGED <<objects, latest, cache, fs, now, snap, ret, settled, signatures>>

(* What is on record of an operation that had a helper running. *)
Ctx(l, signatures0) ==
    [cancelled |-> l.cancelled, signaled |-> l.signaled, signatures0 |-> signatures0]

(* Sign, lines 30-48: the helper is started. *)
SignStart(pr, id, h, prevSignature) ==
    /\ pub[pr].pc = "idle"
    /\ pub' = [pub EXCEPT ![pr] = [PubIdle EXCEPT !.pc = "sign", !.id = id, !.h = h,
                                                  !.start = prevSignature, !.helper = TRUE]]
    /\ last' = last
    /\ UNCHANGED <<objects, latest, cache, fs, now, snap, ret, settled, signatures>>

(* Sign, lines 49-60: the output of the helper is read to its end, parsed  *)
(* and recorded.  honoured is whether UpdateSignatureForIdentity refuses   *)
(* to write for a cancelled context.                                       *)
SignEnd(pr, out, honoured) ==
    LET l == pub[pr]
        r == Sign(signatures, l.id, l.h, l.start, out)
        refused == l.cancelled /\ honoured /\ r.err = ""
    IN  /\ l.pc = "sign"
        /\ out.started
        /\ honoured => l.cancelled
        /\ signatures' = IF refused THEN signatures ELSE r.signatures
        /\ pub' = IF r.err = "" /\ ~refused THEN Overtaken(pr) ELSE [pub EXCEPT ![pr] = PubIdle]
        /\ last' = [op |-> "Sign", id |-> l.id, h |-> l.h, prevSignature |-> l.start,
                    out |-> out, res |-> IF refused THEN Nil ELSE r.h,
                    err |-> IF refused THEN "update" ELSE r.err, runs |-> r.runs]
                   @@ Ctx(l, signatures)
        /\ UNCHANGED <<objects, latest, cache, fs, now, snap, ret, settled>>

(* pullFrom, lines 30-46: a mirror without a URL is passed over, the       *)
(* helper of any other is started.                                         *)
PullStart(pr) ==
    LET l == pub[pr]
        mirrors == PullMirrors(Settings, l.id)
    IN  /\ l.pc = "mirrors"
        /\ ~l.helper
        /\ l.i <= Len(mirrors)
        /\ IF mirrors[l.i].url = NoURL
           THEN \E s \in {pullFromAndVerify(mirrors[l.i], l.id, l.signature, l.signed, NotRun)} :
                   pub' = [pub EXCEPT ![pr].i = l.i + 1, ![pr].trace = Append(l.trace, s)]
           ELSE pub' = [pub EXCEPT ![pr].helper = TRUE]
        /\ last' = last
        /\ UNCHANGED <<objects, latest, cache, fs, now, snap, ret, settled, signatures>>

(* pullFrom, lines 47-55, and pullFromAndVerify: the output of the helper  *)
(* is read to its end, parsed and verified.                                *)
PullEnd(pr, out) ==
    LET l == pub[pr]
        mirrors == PullMirrors(Settings, l.id)
    IN  /\ l.pc = "mirrors"
        /\ l.helper
        /\ out.started
        /\ \E s \in {pullFromAndVerify(mirrors[l.i], l.id, l.signature, l.signed, out)} :
              IF s.err # ""
              THEN /\ pub' = [pub EXCEPT ![pr] = PubIdle]
                   /\ last' = PullDone(l.id, l.start, Append(l.trace, s), Nil, Nil, s.err, l.stale)
                              @@ Ctx(l, signatures)
              ELSE /\ pub' = [pub EXCEPT ![pr].signature = s.signature, ![pr].signed = s.signed,
                                         ![pr].i = l.i + 1, ![pr].trace = Append(l.trace, s),
                                         ![pr].helper = FALSE]
                   /\ last' = last
        /\ UNCHANGED <<objects, latest, cache, fs, now, snap, ret, settled, signatures>>

(* Pull, lines 98-101: the identity index is written, unless               *)
(* UpdateSignatureForIdentity refuses to write for a cancelled context.    *)
PullCommit(pr, honoured) ==
    LET l == pub[pr]
        refused == l.cancelled /\ honoured
    IN  /\ l.pc = "mirrors"
        /\ ~l.helper
        /\ l.i > Len(PullMirrors(Settings, l.id))
        /\ honoured => l.cancelled
        /\ signatures' = IF refused THEN signatures
                         ELSE UpdateSignatureForIdentity(signatures, l.id, l.signature)
        /\ pub' = IF refused THEN [pub EXCEPT ![pr] = PubIdle] ELSE Overtaken(pr)
        /\ last' = IF refused
                   THEN PullDone(l.id, l.start, l.trace, Nil, Nil, "update", l.stale)
                        @@ Ctx(l, signatures)
                   ELSE PullDone(l.id, l.start, l.trace, l.signature, l.signed, "", l.stale)
                        @@ Ctx(l, signatures)
        /\ UNCHANGED <<objects, latest, cache, fs, now, snap, ret, settled>>

CancelResults == {ReadFailed, Ran(Garbage, 1)} \cup {Ran(HashString(sig), 0) : sig \in Sigs}

(* One operation at a time: the claim is about one context. *)
CancelProcs == {1}

NextCancel ==
    \/ \E pr \in CancelProcs, id \in Identities : PullRead(pr, id)
    \/ \E pr \in CancelProcs : PullStart(pr)
    \/ \E pr \in CancelProcs, out \in CancelResults : PullEnd(pr, out)
    \/ \E pr \in CancelProcs, honoured \in BOOLEAN : PullCommit(pr, honoured)
    \/ \E pr \in CancelProcs, id \in Identities : SignStart(pr, id, Attested(1), signatures[id])
    \/ \E pr \in CancelProcs, out \in CancelResults, honoured \in BOOLEAN : SignEnd(pr, out, honoured)
    \/ \E pr \in CancelProcs : Cancel(pr)

SpecCancel == Init /\ [][NextCancel]_vars

-----------------------------------------------------------------------------
(* C1. Snapshot idempotence: a Current(P) that runs when nothing under P   *)
(* has changed since the previous Current(P) returns the hash that one     *)
(* returned, stores no new File record and leaves the path-latest entry    *)
(* of P as it was.                                                         *)
C1_SnapshotIdempotence ==
    (last.op = "Current" /\ last.prev # None) =>
        /\ last.h = last.prev
        /\ FileHashes(last.objects1) = FileHashes(last.objects0)
        /\ last.latest1[last.path] = last.latest0[last.path]

(* A directory snapshotted again unchanged (the prev-equal check), with a  *)
(* child that went through the cache fast path.                            *)
C1_Witness ==
    /\ last.op = "Current"
    /\ last.prev \notin {None, Nil}
    /\ IsDir(ReadSnapshot(objects, last.h))
    /\ last.hits # {}

(* C2. Parent linkage: when a Current(P) returns a snapshot H2 other than  *)
(* the snapshot H1 the Current(P) before it returned, the File record of   *)
(* H2 has the parents <<H1>>, and H1 is among the ancestors of H2; the     *)
(* first snapshot of a path has no parents.                                *)
C2_ParentLinkage ==
    last.op = "Current" =>
        \A q \in Found(last.seen) :
            LET h2 == last.seen[q]
                h1 == last.ret0[q]
            IN  /\ (h1 # Nil /\ h2 # h1) =>
                       /\ ReadSnapshot(objects, h2).parents = <<h1>>
                       /\ h1 \in AncestorSet(objects, h2)
                /\ h1 = Nil => ReadSnapshot(objects, h2).parents = <<>>

(* One run snapshots a changed directory anew, after an earlier snapshot   *)
(* of it, and takes the first snapshot of a child of it.                  *)
C2_Witness ==
    /\ last.op = "Current"
    /\ \E q \in Found(last.seen) :
          /\ last.ret0[q] # Nil
          /\ last.seen[q] # last.ret0[q]
          /\ IsDir(ReadSnapshot(objects, last.seen[q]))
    /\ \E q \in Found(last.seen) :
          /\ last.ret0[q] = Nil
          /\ ~IsDir(ReadSnapshot(objects, last.seen[q]))

(* C3. Path index monotonicity: whenever the path-latest entry of a path   *)
(* changes from a snapshot to another, the old one is an ancestor of the   *)
(* new one.                                                                *)
C3_PathIndexMonotone ==
    [][\A q \in Paths :
          (latest[q] # Nil /\ latest'[q] # latest[q]) =>
              latest[q] \in AncestorSet(objects', latest'[q])]_vars

(* The entry of a path has just been replaced, by a snapshot of another mode. *)
C3_Witness ==
    /\ last.op = "Current"
    /\ \E q \in Paths :
          /\ last.latest0[q] # Nil
          /\ last.latest1[q] # last.latest0[q]
          /\ ReadSnapshot(objects, last.latest1[q]).mode
                 # ReadSnapshot(objects, last.latest0[q]).mode

(* No cache entry hides a write: a regular file whose info matches the     *)
(* cache has the mode and the bytes of the path-latest snapshot.           *)
CacheSound ==
    \A p \in Paths :
        (fs[p].kind = "file" /\ readCached(StoreState, p, Info(fs[p]))) =>
            /\ ReadSnapshot(objects, latest[p]).mode = ModeLine(fs[p])
            /\ SnapshotBytes(objects, latest[p]) = fs[p].data

NothingDone ==
    /\ last.reads = 0
    /\ last.helpers = 0
    /\ last.stores = 0
    /\ objects = last.objects0

(* None of the three trivial cases applies to the call. *)
NoTrivialCase == last.src # last.dest /\ last.src # last.base /\ last.dest # last.base

(* C5. Merge trivialities: mergeWithBase returns src without error when    *)
(* src = dest; otherwise dest when src = base; otherwise src when          *)
(* dest = base; and in the three cases it reads no snapshot, stores no     *)
(* object and runs no helper.                                              *)
C5_MergeTrivialities ==
    last.op = "mergeWithBase" =>
        /\ last.src = last.dest =>
               last.h = last.src /\ last.err = <<>> /\ NothingDone
        /\ (last.src # last.dest /\ last.src = last.base) =>
               last.h = last.dest /\ last.err = <<>> /\ NothingDone
        /\ (last.src # last.dest /\ last.src # last.base /\ last.dest = last.base) =>
               last.h = last.src /\ last.err = <<>> /\ NothingDone

(* The third case, on snapshots none of which is nil. *)
C5_Witness ==
    /\ last.op = "mergeWithBase"
    /\ last.src # last.dest /\ last.src # last.base /\ last.dest = last.base
    /\ last.src # Nil /\ last.base # Nil
    /\ last.h = last.src

(* C6. Merge idempotence: a Merge(src, dest) that follows a successful     *)
(* Merge(src, dest) with no change of the files in between succeeds,       *)
(* finds and leaves at the destination the snapshot the first merge left,  *)
(* and changes nothing at the destination.                                 *)
C6_MergeIdempotence ==
    (last.op = "Merge" /\ last.again) =>
        /\ ~last.err
        /\ last.destPrev = last.first
        /\ last.result = last.first
        /\ latest[last.dest] = last.first
        /\ fs = last.fs0
        /\ ~last.removed /\ ~last.checkedOut

(* The first merge was a merge of two directories that had diverged. *)
C6_Witness ==
    /\ last.op = "Merge" /\ last.again
    /\ last.first # last.src
    /\ ReadSnapshot(objects, last.first).parents # <<>>
    /\ ReadSnapshot(objects, last.first).parents[1] = last.src
    /\ IsDir(ReadSnapshot(objects, last.first))

(* C7. When mergeWithBase succeeds on two distinct directory snapshots     *)
(* that both differ from the base, it returns the hash of a File record    *)
(* with the parents <<src, dest>>, the mode of the source directory and,   *)
(* as contents, the hash of the serialized merged Tree.                    *)
C7_DirectoryMergeResult ==
    (/\ last.op = "mergeWithBase"
     /\ NoTrivialCase
     /\ last.src # Nil /\ last.dest # Nil
     /\ last.err = <<>>
     /\ IsDir(ReadSnapshot(objects, last.src))
     /\ IsDir(ReadSnapshot(objects, last.dest))) =>
        /\ last.h \in FileHashes(objects)
        /\ ReadSnapshot(objects, last.h).parents = <<last.src, last.dest>>
        /\ ReadSnapshot(objects, last.h).mode = ReadSnapshot(objects, last.src).mode
        /\ objects[ReadSnapshot(objects, last.h).contents] = TreeString(last.tree)
        /\ ListDirectorySnapshotContents(objects, ReadSnapshot(objects, last.h)) = last.tree

(* A merge of two directories of different modes with a file in them. *)
C7_Witness ==
    /\ last.op = "mergeWithBase"
    /\ NoTrivialCase
    /\ last.src # Nil /\ last.dest # Nil
    /\ last.err = <<>>
    /\ IsDir(ReadSnapshot(objects, last.src))
    /\ IsDir(ReadSnapshot(objects, last.dest))
    /\ ReadSnapshot(objects, last.src).mode # ReadSnapshot(objects, last.dest).mode
    /\ DOMAIN last.tree # {}

(* C8. Rollback detection: with src and dest not nil and no trivial case,  *)
(* a base that is no ancestor of src makes the merge fail with an error    *)
(* that names the sub-path and cites the source; otherwise a base that is  *)
(* no ancestor of dest makes it fail citing the destination; and the merge *)
(* has then read no snapshot, run no helper and stored no object.          *)
C8_RollbackDetection ==
    (/\ last.op = "mergeWithBase"
     /\ NoTrivialCase
     /\ last.src # Nil /\ last.dest # Nil
     /\ last.base # Nil) =>
        /\ last.base \notin AncestorSet(last.objects0, last.src) =>
               /\ last.h = Nil
               /\ last.err = <<Err("source", last.subPath)>>
               /\ NothingDone
        /\ (/\ last.base \in AncestorSet(last.objects0, last.src)
            /\ last.base \notin AncestorSet(last.objects0, last.dest)) =>
               /\ last.h = Nil
               /\ last.err = <<Err("destination", last.subPath)>>
               /\ NothingDone

(* The base is an ancestor of neither: the error cites the source. *)
C8_Witness ==
    /\ last.op = "mergeWithBase"
    /\ NoTrivialCase
    /\ last.src # Nil /\ last.dest # Nil /\ last.base # Nil
    /\ last.base \notin AncestorSet(last.objects0, last.src)
    /\ last.base \notin AncestorSet(last.objects0, last.dest)
    /\ last.err = <<Err("source", last.subPath)>>

(* C9. When mergeWithBase returns an error, Merge returns an error and     *)
(* leaves the files at the destination as they were: the destination is    *)
(* neither removed nor checked out, and its snapshot stays the one taken   *)
(* before the merge.                                                       *)
C9_ConflictLeavesDestination ==
    (last.op = "Merge" /\ last.mergeErr # <<>>) =>
        /\ last.err
        /\ fs = last.fs0
        /\ ~last.removed /\ ~last.checkedOut
        /\ latest[last.dest] = last.destPrev

(* The helper refused to merge a file of two directories that had diverged. *)
C9_Witness ==
    /\ last.op = "Merge"
    /\ \E i \in 1..Len(last.mergeErr) : last.mergeErr[i].kind = "helper"
    /\ fs[last.dest].kind = "dir"

(* C10. Ancestor totality: every snapshot is an ancestor of itself, nil is *)
(* an ancestor of every snapshot, and IsAncestor(base, h) is true iff base *)
(* is nil or is in the unbounded log of h, that is, reachable from h by    *)
(* parent edges.                                                           *)
C10_AncestorTotality ==
    /\ \A h \in FileHashes(objects) :
          /\ IsAncestor(objects, h, h)
          /\ IsAncestor(objects, Nil, h)
          /\ LogSet(objects, h) = AncestorSet(objects, h)
    /\ last.op = "IsAncestor" =>
          (last.res <=> (last.base = Nil \/ last.base \in LogSet(objects, last.h)))

(* An ancestor found behind a snapshot with two parents. *)
C10_Witness ==
    /\ last.op = "IsAncestor"
    /\ last.res
    /\ last.base \notin {Nil, last.h}
    /\ Len(ReadSnapshot(objects, last.h).parents) = 2

-----------------------------------------------------------------------------
(* The signature a successful Pull ends with: what the last mirror that    *)
(* returned another signature than the one then held returned, or the      *)
(* signature held at the start.                                            *)
Differing(trace) == {i \in 1..Len(trace) : trace[i].pulled # trace[i].prev}
LastOf(S) == CHOOSE i \in S : \A j \in S : j <= i
Ratchet(start, trace) ==
    IF Differing(trace) = {} THEN start ELSE trace[LastOf(Differing(trace))].pulled

(* C11. Mirror ratchet on success: when Pull succeeds it has gone through  *)
(* the identity's own pull mirrors and then the additional ones, each with *)
(* the signature then held; the identity index holds, and Pull returns,    *)
(* the signature of the last mirror whose pulled signature differed from   *)
(* the one then held, which Verify accepted, or the signature held before  *)
(* the Pull; the signed snapshot returned is what Verify gives for it.     *)
C11_MirrorRatchet ==
    (last.op = "Pull" /\ last.err = "") =>
        /\ [i \in 1..Len(last.trace) |-> last.trace[i].m]
              = <<Mirror(1), [url |-> NoURL, flags |-> <<>>], Mirror(2)>>
        /\ \A i \in 1..Len(last.trace) :
              last.trace[i].prev = Ratchet(last.start, SubSeq(last.trace, 1, i - 1))
        /\ last.start = last.signatures0[last.id]
        /\ last.signature = Ratchet(last.start, last.trace)
        /\ signatures[last.id] = last.signature
        /\ ~Verify(last.id, last.signature).err
        /\ last.signed = Verify(last.id, last.signature).signed

(* A Pull from a held signature: the first mirror returns another one, the *)
(* last mirror returns that one again.                                     *)
C11_Witness ==
    /\ last.op = "Pull"
    /\ last.err = ""
    /\ last.start # Nil
    /\ last.trace[1].pulled \notin {Nil, last.start}
    /\ last.trace[3].pulled = last.trace[1].pulled
    /\ signatures[last.id] = last.trace[1].pulled
    /\ last.signed = Attested(last.trace[1].pulled)

-----------------------------------------------------------------------------
(* A Pull from a held signature S0 whose first mirror returned another     *)
(* signature S1 that verified, and whose last mirror returned a signature  *)
(* that Verify rejected.                                                   *)
RejectedAfterVerified ==
    /\ last.op = "Pull"
    /\ last.start # Nil
    /\ Len(last.trace) = Len(PullMirrors(Settings, last.id))
    /\ last.trace[1].err = ""
    /\ last.trace[1].pulled \notin {Nil, last.start}
    /\ last.trace[Len(last.trace)].pulled \in Rejected

(* C12 as stated: such a Pull fails and the identity's latest signature is *)
(* S1, the signature verified before the failing mirror.                   *)
C12_AsStated ==
    RejectedAfterVerified =>
        (last.err # "" /\ signatures[last.id] = last.trace[1].pulled)

(* C12, amended. Such a Pull fails and the identity's latest signature     *)
(* remains S0, the signature held before the Pull: no Pull that fails      *)
(* writes the identity index.                                              *)
C12_FailedPullKeepsIndex ==
    /\ RejectedAfterVerified =>
          (last.err = "verify" /\ signatures[last.id] = last.start)
    /\ (last.op = "Pull" /\ last.err # "") =>
          (signatures = last.signatures0 /\ last.signature = Nil /\ last.signed = Nil)

(* The Pull of C12, with the index still at S0 and S1 pulled and verified. *)
C12_Witness ==
    /\ RejectedAfterVerified
    /\ last.err = "verify"
    /\ last.trace[1].signed = Attested(last.trace[1].pulled)
    /\ signatures[last.id] = last.start
    /\ signatures[last.id] # last.trace[1].pulled

-----------------------------------------------------------------------------
(* A helper fails when it cannot be started, when its output cannot be     *)
(* read, when it does not exit with code 0 or when what it printed is no   *)
(* hash.                                                                   *)
HelperFailed(out) ==
    ~out.started \/ ~out.read \/ out.exit # 0 \/ ParseHash(out.stdout).err

(* The mirrors of a Pull whose helper failed. *)
FailedMirrors(trace) ==
    {i \in 1..Len(trace) : trace[i].runs # <<>> /\ HelperFailed(trace[i].runs[1].out)}

(* C13. A mirror whose pull helper fails never advances the identity       *)
(* index: the signature a Pull writes to the index is never the one it     *)
(* took from a mirror whose helper failed.                                 *)
C13_FailedHelperNeverAdvances ==
    (last.op = "Pull" /\ last.err = "" /\ Differing(last.trace) # {}) =>
        LastOf(Differing(last.trace)) \notin FailedMirrors(last.trace)

-----------------------------------------------------------------------------
(* C14. Sign fails and leaves the identity index unchanged whenever the    *)
(* sign helper does not exit with code 0, whatever it printed; it records  *)
(* the parsed hash, and returns it, only when the helper exited with code  *)
(* 0 and printed a hash; with a nil identity or a nil hash it fails before *)
(* any helper is invoked.                                                  *)
C14_SignNeedsExitZero ==
    last.op = "Sign" =>
        /\ (last.id = NoIdentity \/ last.h = Nil) =>
              (last.err # "" /\ last.runs = <<>> /\ signatures = last.signatures0)
        /\ (last.runs # <<>> /\ (~last.out.started \/ last.out.exit # 0)) =>
              (last.err # "" /\ signatures = last.signatures0)
        /\ last.err = "" =>
              /\ last.out.started /\ last.out.exit = 0 /\ ~ParseHash(last.out.stdout).err
              /\ last.res = ParseHash(last.out.stdout).h
              /\ signatures = [last.signatures0 EXCEPT ![last.id] = last.res]

(* What Sign does keep to: nil arguments fail before any helper runs,       *)
(* a helper that cannot be started or prints no hash leaves the index as   *)
(* it was, and a Sign that succeeds records and returns the parsed hash.   *)
SignApartFromExit ==
    last.op = "Sign" =>
        /\ (last.id = NoIdentity \/ last.h = Nil) =>
              (last.err # "" /\ last.runs = <<>> /\ signatures = last.signatures0)
        /\ (last.runs # <<>> /\ (HelperFailed([last.out EXCEPT !.exit = 0]))) =>
              (last.err # "" /\ signatures = last.signatures0)
        /\ last.err = "" =>
              /\ last.res = ParseHash(last.out.stdout).h
              /\ signatures = [last.signatures0 EXCEPT ![last.id] = last.res]

-----------------------------------------------------------------------------
(* C15. Every pull helper run by a Pull is rvcs-pull-<scheme> of its       *)
(* mirror, with the arguments: the mirror's helper flags, the full URL of  *)
(* the mirror, the full identity, and the signature then held when there   *)
(* is one, which is the signature the mirrors before it resulted in.       *)
C15_PullArguments ==
    last.op = "Pull" =>
        \A i \in 1..Len(last.trace) :
            LET s == last.trace[i]
            IN  s.runs # <<>> =>
                  /\ s.runs[1].command = <<"rvcs-pull", s.m.url.scheme>>
                  /\ s.prev = Ratchet(last.start, SubSeq(last.trace, 1, i - 1))
                  /\ s.runs[1].args =
                        s.m.flags \o <<URLString(s.m.url), IdentityString(last.id)>>
                        \o (IF s.prev # Nil THEN <<HashString(s.prev)>> ELSE <<>>)

(* What pullFrom does pass: the flags, the identity and the signature then *)
(* held, without the URL of the mirror.                                    *)
PullArgumentsWithoutURL ==
    last.op = "Pull" =>
        \A i \in 1..Len(last.trace) :
            LET s == last.trace[i]
            IN  s.runs # <<>> =>
                  /\ s.runs[1].command = <<"rvcs-pull", s.m.url.scheme>>
                  /\ s.prev = Ratchet(last.start, SubSeq(last.trace, 1, i - 1))
                  /\ s.runs[1].args =
                        s.m.flags \o <<IdentityString(last.id)>>
                        \o (IF s.prev # Nil THEN <<HashString(s.prev)>> ELSE <<>>)

-----------------------------------------------------------------------------
(* A call of mergeWithBase that came to merge two directories: no trivial  *)
(* case, no side deleted or rolled back, source and destination both       *)
(* directories.                                                            *)
DirectoryMerge ==
    /\ last.op = "mergeWithBase"
    /\ ~TrivialCase(last.base, last.src, last.dest).hit
    /\ last.src # Nil /\ last.dest # Nil
    /\ RolledBack(last.objects0, last.subPath, last.base, last.src, last.dest) = <<>>
    /\ IsDir(ReadSnapshot(last.objects0, last.src))
    /\ IsDir(ReadSnapshot(last.objects0, last.dest))

(* The names in the trees of the source and of the destination. *)
UnionOfNames ==
    DOMAIN ListDirectorySnapshotContents(last.objects0, ReadSnapshot(last.objects0, last.src))
    \cup DOMAIN ListDirectorySnapshotContents(last.objects0,
                                              ReadSnapshot(last.objects0, last.dest))

(* The merges of the children of the directory, in the order made. *)
IsChild(t) == Len(t.path) = Len(last.subPath) + 1
ChildMerges == SelectSeq(last.tried, IsChild)

ModesMismatch ==
    /\ ReadSnapshot(last.objects0, last.src).mode # ReadSnapshot(last.objects0, last.dest).mode
    /\ ~last.forceKeepMode

(* The objects the call stored. *)
StoredByCall == {objects[i] : i \in (Len(last.objects0) + 1)..Len(objects)}

(* C16. Error aggregation in a directory merge: the merge of every name in *)
(* the union of the source and destination trees is attempted, once,       *)
(* whichever of them fail; if a child fails or the modes mismatch, the     *)
(* merge fails with one error that holds the error of every failing child, *)
(* and stores neither a merged Tree nor a File record of a directory.      *)
C16_ErrorAggregation ==
    DirectoryMerge =>
        /\ {ChildMerges[i].path : i \in 1..Len(ChildMerges)}
              = {Join(last.subPath, n) : n \in UnionOfNames}
        /\ Len(ChildMerges) = Cardinality(UnionOfNames)
        /\ ((\E i \in 1..Len(ChildMerges) : ChildMerges[i].err # <<>>) \/ ModesMismatch) =>
              /\ last.h = Nil
              /\ last.err # <<>>
              /\ \A i \in 1..Len(ChildMerges) : \A k \in 1..Len(ChildMerges[i].err) :
                    \E j \in 1..Len(last.err) : last.err[j] = ChildMerges[i].err[k]
              /\ \A o \in StoredByCall :
                    /\ o.kind # "tree"
                    /\ o.kind = "file" => ~IsDir(ParseFile(o))

(* A directory merge whose first child failed and whose second child was   *)
(* merged all the same, its merged File stored.                            *)
C16_Witness ==
    /\ DirectoryMerge
    /\ Len(ChildMerges) = 2
    /\ ChildMerges[1].err # <<>>
    /\ ChildMerges[2].err = <<>>
    /\ ChildMerges[2].h \notin 0..Len(last.objects0)
    /\ last.h = Nil
    /\ last.err = ChildMerges[1].err

-----------------------------------------------------------------------------
(* The merge on record run again on the same store, the helper ending the  *)
(* same way each time it runs, the map of subpaths yielding the names in   *)
(* the given order.                                                        *)
Rerun(out, order) ==
    mergeWithBase(MergeState(last.objects0), last.subPath, last.base, last.src, last.dest,
                  last.forceKeepMode,
                  [runs |-> [k \in 1..Len(NameSeq) |-> out], order |-> order])

(* The merged Tree of a run, each name with the File record merged for it. *)
MergedRecords(r) == [n \in DOMAIN r.tree |-> r.m.objects[r.tree[n]]]

NameIndex(n) == CHOOSE i \in 1..Len(NameSeq) : NameSeq[i] = n
InNameOrder(errs) ==
    \A i, j \in 1..Len(errs) :
        (i < j /\ Len(errs[i].path) > Len(last.subPath)
               /\ Len(errs[j].path) > Len(last.subPath)) =>
            NameIndex(errs[i].path[Len(last.subPath) + 1])
                <= NameIndex(errs[j].path[Len(last.subPath) + 1])

(* C17. Merge determinism: a directory merge visits the names of the union *)
(* in ascending order, so that two runs of mergeWithBase on the same base, *)
(* source, destination and store give the same merged Tree when they       *)
(* succeed and the same joined error, the errors of the children in name   *)
(* order, when they fail.                                                  *)
C17_MergeDeterminism ==
    DirectoryMerge =>
        /\ \A i, j \in 1..Len(ChildMerges) :
              i < j => NameIndex(ChildMerges[i].path[Len(last.subPath) + 1])
                          < NameIndex(ChildMerges[j].path[Len(last.subPath) + 1])
        /\ InNameOrder(last.err)
        /\ \A out \in HelperOutcomes : \A o1, o2 \in Orders :
              /\ Rerun(out, o1).err = Rerun(out, o2).err
              /\ (Rerun(out, o1).h = Nil) = (Rerun(out, o2).h = Nil)
              /\ MergedRecords(Rerun(out, o1)) = MergedRecords(Rerun(out, o2))

(* What does not depend on the order of the names: whether the merge       *)
(* succeeds, the merged Tree, and which errors are joined.                 *)
MergeUpToOrder ==
    DirectoryMerge =>
        \A out \in HelperOutcomes : \A o1, o2 \in Orders :
            /\ {Rerun(out, o1).err[i] : i \in 1..Len(Rerun(out, o1).err)}
                  = {Rerun(out, o2).err[i] : i \in 1..Len(Rerun(out, o2).err)}
            /\ Len(Rerun(out, o1).err) = Len(Rerun(out, o2).err)
            /\ (Rerun(out, o1).h = Nil) = (Rerun(out, o2).h = Nil)
            /\ MergedRecords(Rerun(out, o1)) = MergedRecords(Rerun(out, o2))

-----------------------------------------------------------------------------
(* C18. The read-modify-write sequences on the identity index are          *)
(* serialized per identity: no Pull writes the index from the signature it *)
(* read at its start when another operation has written the index since,   *)
(* so a newer signature recorded by a Sign or another Pull is never        *)
(* overwritten by the older one.                                           *)
C18_IndexSerialized ==
    (last.op = "Pull" /\ last.err = "" /\ Differing(last.trace) = {}) =>
        (last.stale => last.signatures0[last.id] = last.start)

(* What holds without the serialization: the index always holds a value    *)
(* that some operation proposed, the signature a Sign parsed or a Pull     *)
(* ended with.                                                             *)
IndexHoldsProposed ==
    /\ last.op = "Pull" /\ last.err = "" => signatures[last.id] = last.signature
    /\ last.op = "Sign" /\ last.err = "" => signatures[last.id] = last.res
    /\ last.op \in {"Pull", "Sign"} /\ last.err # "" => signatures = last.signatures0

-----------------------------------------------------------------------------
(* The proper ancestors of a snapshot: what its parent edges lead to. *)
ProperAncestors(objs, h) == Closure(objs, ParentSet(objs, h))

-----------------------------------------------------------------------------
(* C20. Cache-write guard: in a snapshot of a regular file a cache entry   *)
(* is written for the path only by the deferred function of a snapshot     *)
(* that produced a hash, whose Lstat after reading succeeded with the      *)
(* modification time observed before reading, that time being strictly     *)
(* earlier than the start time less one second; what is written then is    *)
(* the info observed before reading, and in every other case the cache is  *)
(* left as it was.                                                         *)
C20_CacheWriteGuard ==
    [][\A p \in Paths :
          cache'[p] # cache[p] =>
              \E pr \in Procs :
                  /\ snap[pr].pc = "cache"
                  /\ snap[pr].path = p
                  /\ snap[pr].res # Nil
                  /\ snap[pr].res = latest[p]
                  /\ snap[pr].post.exists
                  /\ snap[pr].post.mtime = snap[pr].info.mtime
                  /\ snap[pr].post.mtime < snap[pr].start - Second
                  /\ cache'[p] = {snap[pr].info}]_vars

(* A snapshot has returned with its path info cached; the cache held       *)
(* another info, or none, when its info was taken.                         *)
C20_Witness ==
    /\ last.op = "CurrentSteps"
    /\ ~last.fast
    /\ last.h # Nil
    /\ \E p \in RacePaths :
          /\ last.path = p
          /\ fs[p].kind = "file"
          /\ cache[p] = {Info(fs[p])}
          /\ now >= fs[p].mtime + 2 * Second

-----------------------------------------------------------------------------
(* C21. Deletion conflict: when none of the three trivial cases applies    *)
(* and one of src and dest is nil, mergeWithBase fails with the one error  *)
(* that names the sub-path as deleted, whatever the ancestry of the other  *)
(* side, having read no snapshot, run no helper and stored no object; no   *)
(* call to which a trivial case applies, a nil side or not, fails so; and  *)
(* past the trivial cases src and dest are never both nil.                 *)
C21_DeletionConflict ==
    last.op = "mergeWithBase" =>
        /\ (NoTrivialCase /\ (last.src = Nil \/ last.dest = Nil)) =>
              /\ last.h = Nil
              /\ last.err = <<Err("deleted", last.subPath)>>
              /\ NothingDone
              /\ (last.src = Nil) # (last.dest = Nil)
        /\ ~NoTrivialCase => last.err = <<>>
        /\ (\E i \in 1..Len(last.err) : last.err[i] = Err("deleted", last.subPath)) =>
              (NoTrivialCase /\ (last.src = Nil \/ last.dest = Nil))

(* The destination is nil, and the base is no ancestor of the source: the  *)
(* ancestry test, had it come first, would have cited the source.          *)
C21_Witness ==
    /\ last.op = "mergeWithBase"
    /\ NoTrivialCase
    /\ last.dest = Nil /\ last.src # Nil /\ last.base # Nil
    /\ last.base \notin AncestorSet(last.objects0, last.src)
    /\ last.err = <<Err("deleted", last.subPath)>>

-----------------------------------------------------------------------------
(* Every child of the directory merge on record merged without error. *)
ChildrenClean == \A i \in 1..Len(ChildMerges) : ChildMerges[i].err = <<>>

ModesDiffer ==
    ReadSnapshot(last.objects0, last.src).mode # ReadSnapshot(last.objects0, last.dest).mode

ModeErrors == {i \in 1..Len(last.err) : last.err[i] = Err("mode", last.subPath)}

(* C22. Mode mismatch: a directory merge whose source and destination      *)
(* modes differ fails, when forceKeepMode is false, with the mode-mismatch *)
(* error of its sub-path, joined after the errors of the children and the  *)
(* only error when every child merged cleanly; when forceKeepMode is true  *)
(* the mismatch is no error, and the merge, its children clean, succeeds   *)
(* with a File record of the source's mode; modes that match give no such  *)
(* error.                                                                  *)
C22_ModeMismatch ==
    DirectoryMerge =>
        /\ (ModesDiffer /\ ~last.forceKeepMode) =>
              /\ last.h = Nil
              /\ ModeErrors = {Len(last.err)}
              /\ ChildrenClean => last.err = <<Err("mode", last.subPath)>>
        /\ (ModesDiffer /\ last.forceKeepMode) =>
              /\ ModeErrors = {}
              /\ ChildrenClean =>
                    /\ last.err = <<>>
                    /\ last.h \in FileHashes(objects)
                    /\ ReadSnapshot(objects, last.h).mode
                          = ReadSnapshot(last.objects0, last.src).mode
                    /\ ReadSnapshot(objects, last.h).mode
                          # ReadSnapshot(last.objects0, last.dest).mode
        /\ ~ModesDiffer => ModeErrors = {}

(* Two directories of different modes, not forced: the children, one of    *)
(* them merged by the helper, all merged cleanly, and the merge failed     *)
(* with the mode mismatch alone.                                           *)
C22_Witness ==
    /\ DirectoryMerge
    /\ ModesDiffer /\ ~last.forceKeepMode
    /\ ChildMerges # <<>>
    /\ ChildrenClean
    /\ last.helpers > 0
    /\ last.h = Nil
    /\ last.err = <<Err("mode", last.subPath)>>

(* Merge passes false for forceKeepMode: a Merge that comes to merge two   *)
(* directories of different modes fails with the mode mismatch of the      *)
(* destination path and leaves the destination as it was.                  *)
MergeNeverForcesMode ==
    (/\ last.op = "Merge"
     /\ last.branch \in {"conflict", "merged"}
     /\ IsDir(ReadSnapshot(objects, last.src))
     /\ IsDir(ReadSnapshot(objects, last.destPrev))
     /\ ReadSnapshot(objects, last.src).mode # ReadSnapshot(objects, last.destPrev).mode
     /\ RolledBack(objects, last.dest, Base(objects, last.src, last.destPrev),
                   last.src, last.destPrev) = <<>>) =>
        /\ last.branch = "conflict"
        /\ last.err
        /\ last.mergeErr[Len(last.mergeErr)] = Err("mode", last.dest)

-----------------------------------------------------------------------------
(* The entries of the directory snapshot on record whose Current returned  *)
(* a snapshot, each with it.                                               *)
KidsFound == {i \in 1..Len(last.kids) : last.kids[i].h # Nil}
KidsTree ==
    [n \in {last.kids[i].name : i \in KidsFound} |->
        last.kids[CHOOSE i \in KidsFound : last.kids[i].name = n].h]

(* C23. Disappearing entries: Current of a path that is excluded or that   *)
(* Lstat reports missing returns nil and writes no object and no index     *)
(* entry; so does the Current of a directory entry that is gone at its     *)
(* Lstat or between its Lstat and its Open; an entry whose Current         *)
(* returned nil is not in the Tree, and the directory snapshot, its Tree   *)
(* and File record stored, succeeds with the Tree of the other entries.    *)
C23_DisappearingEntries ==
    /\ (last.op = "Current" /\ (Exclude(last.path) \/ fs[last.path].kind = "none")) =>
          /\ last.h = Nil
          /\ last.objects1 = last.objects0
          /\ last.latest1 = last.latest0
    /\ last.op = "CurrentWalk" =>
          /\ \A i \in 1..Len(last.kids) :
                /\ last.kids[i].missing \in {"lstat", "open"} =>
                      (last.kids[i].h = Nil /\ ~last.kids[i].wrote)
                /\ last.kids[i].h = Nil => last.kids[i].name \notin DOMAIN last.tree
          /\ last.tree = KidsTree
          /\ (last.left = <<>> /\ last.stored /\ last.err # "save") =>
                /\ last.err = ""
                /\ last.h \in FileHashes(objects)
                /\ latest[last.path] = last.h
                /\ ReadSnapshot(objects, last.h).mode = last.info.mode
                /\ objects[ReadSnapshot(objects, last.h).contents] = TreeString(last.tree)

(* A directory was read with two entries: the first was gone when it was   *)
(* opened, the second was snapshotted and is alone in the Tree.            *)
C23_Witness ==
    /\ last.op = "CurrentWalk"
    /\ Len(last.kids) = 2
    /\ last.kids[1].missing = "open"
    /\ last.kids[2].h # Nil
    /\ last.stored
    /\ last.err = ""
    /\ last.h # Nil
    /\ DOMAIN ListDirectorySnapshotContents(objects, ReadSnapshot(objects, last.h))
          = {last.kids[2].name}

-----------------------------------------------------------------------------
(* C24. A child that cannot be stat'ed is recovered from silently: when,   *)
(* in a directory snapshot, the Lstat of an entry fails with an error      *)
(* other than not-exist, the entry is left out of the Tree, the remaining  *)
(* entries are gone through and the directory snapshot does not return the *)
(* error of the entry.                                                     *)
C24_UnstattableChildOmitted ==
    last.op = "CurrentWalk" =>
        \A i \in 1..Len(last.kids) :
            last.kids[i].missing = "stat" =>
                /\ last.kids[i].name \notin DOMAIN last.tree
                /\ last.left = <<>>
                /\ last.err # "child"

(* What snapshotDirectory does: the error of the entry ends the loop and   *)
(* is returned, with no hash, the Tree and the File record not stored.     *)
UnstattableChildFails ==
    last.op = "CurrentWalk" =>
        \A i \in 1..Len(last.kids) :
            last.kids[i].missing = "stat" =>
                /\ i = Len(last.kids)
                /\ last.left # <<>> /\ Head(last.left) = last.kids[i].name
                /\ last.err = "child"
                /\ last.h = Nil

-----------------------------------------------------------------------------
(* C25. I/O errors are surfaced by the snapshotter: when StoreObject fails *)
(* on the serialized Tree of a directory, Current of the directory returns *)
(* an error and no hash, and leaves the path-latest entry of the directory *)
(* as it found it; no File record without a contents hash is ever stored.  *)
C25_TreeStoreErrorSurfaced ==
    /\ \A h \in FileHashes(objects) : ReadSnapshot(objects, h).contents # Nil
    /\ (last.op = "CurrentWalk" /\ ~last.stored) =>
          /\ last.err # ""
          /\ last.h = Nil
          /\ latest[last.path] = last.prev

(* What snapshotDirectory does: the error of StoreObject is dropped, and   *)
(* unless StoreSnapshot fails as well, a File record without contents is   *)
(* stored, made the path-latest entry of the directory and returned.       *)
TreeStoreErrorDropped ==
    (last.op = "CurrentWalk" /\ ~last.stored) =>
        /\ last.err \in {"", "save"}
        /\ last.err = "" =>
              /\ last.h \in FileHashes(objects)
              /\ ReadSnapshot(objects, last.h).contents = Nil
              /\ latest[last.path] = last.h
        /\ last.err = "save" => (last.h = Nil /\ latest[last.path] = last.prev)

-----------------------------------------------------------------------------
(* Whether the snapshot h describes what the files f hold at p: nothing    *)
(* for a missing or excluded path, the mode and the bytes of a file, the   *)
(* mode and the children of a directory.                                   *)
RECURSIVE Describes(_, _, _, _)
Describes(objs, h, f, p) ==
    IF Exclude(p) \/ f[p].kind = "none" THEN h = Nil
    ELSE /\ h \in FileHashes(objs)
         /\ LET rec == ReadSnapshot(objs, h)
            IN  /\ rec.mode = Info(f[p]).mode
                /\ rec.contents # Nil
                /\ IF f[p].kind = "dir"
                   THEN /\ TreeReadable(objs, rec)
                        /\ LET tree == ListDirectorySnapshotContents(objs, rec)
                           IN  \A q \in {c \in Paths : Len(c) = Len(p) + 1 /\ c \in Under(p)} :
                                  LET n == q[Len(q)]
                                  IN  Describes(objs, IF n \in DOMAIN tree THEN tree[n] ELSE Nil,
                                                f, q)
                   ELSE objs[rec.contents].bytes = f[p].data

(* The destination of the Merge on record existed, and the Merge took      *)
(* files of it away or wrote over them.                                    *)
DestinationChanged ==
    /\ last.op = "Merge"
    /\ last.fs0[last.dest].kind # "none"
    /\ \/ last.removed
       \/ \E q \in Under(last.dest) : fs[q] # last.fs0[q]

(* C26. Pre-merge state is retrievable: whenever Merge removes or writes   *)
(* over the contents of an existing destination, a snapshot of what the    *)
(* destination held before the merge is in the store and was the           *)
(* path-latest entry of the destination before anything was removed, and   *)
(* it is among the ancestors (itself included) of the snapshot that is     *)
(* checked out; so it is too when the Checkout fails after the removal,    *)
(* and the index then still names it.                                      *)
C26_PreMergeStateRetrievable ==
    DestinationChanged =>
        /\ last.destPrev # Nil
        /\ Describes(objects, last.destPrev, last.fs0, last.dest)
        /\ last.destLatest = last.destPrev
        /\ last.destPrev \in AncestorSet(objects, last.result)
        /\ (last.removed /\ last.err) => latest[last.dest] = last.destPrev

(* A merge of changes of both sides took the destination away and its      *)
(* Checkout failed: the directory is gone, its snapshot is on record.      *)
C26_Witness ==
    /\ DestinationChanged
    /\ last.removed
    /\ last.err
    /\ last.branch = "merged"
    /\ fs[last.dest].kind = "none"
    /\ last.fs0[Join(last.dest, "b")].kind = "file"
    /\ Len(ReadSnapshot(objects, last.result).parents) = 2
    /\ last.destPrev \in ParentSet(objects, last.result)
    /\ latest[last.dest] = last.destPrev

-----------------------------------------------------------------------------
(* C27. Read-modify-write sequences on the path-latest index are           *)
(* serialized per path: when two snapshots of one path run at a time, the  *)
(* entry that a snapshot replaces is the entry it had read, and the        *)
(* snapshot that was the latest of the path is among the ancestors of the  *)
(* one that is the latest after it.                                        *)
C27_IndexSerializedPerPath ==
    last.op = "CurrentRace" =>
        /\ last.prev = last.latest0
        /\ last.latest0 # Nil => last.latest0 \in AncestorSet(objects, latest[last.path])

(* What snapshotFileMetadata does keep with another snapshot in between:   *)
(* the record it stores has for its parent the entry it had read, whatever *)
(* the index holds by then, and the index names the record it returns.     *)
IndexHoldsReturned ==
    last.op = "CurrentRace" =>
        /\ last.h \in FileHashes(objects)
        /\ last.h # last.prev =>
              /\ latest[last.path] = last.h
              /\ ParentSet(objects, last.h) = IF last.prev = Nil THEN {} ELSE {last.prev}
        /\ last.h = last.prev => latest[last.path] = last.latest0

-----------------------------------------------------------------------------
(* The Sign or Pull on record had its context cancelled while a helper of  *)
(* it was running.                                                         *)
CancelledWhileHelperRan ==
    /\ last.op \in {"Sign", "Pull"}
    /\ "cancelled" \in DOMAIN last
    /\ last.cancelled

(* C28. Cancellation: when the context of a Sign or a Pull is cancelled    *)
(* while a sign or pull helper is running, the helper is signaled to end,  *)
(* the operation returns an error and the identity index is not updated.   *)
C28_CancellationStopsHelper ==
    CancelledWhileHelperRan =>
        /\ last.signaled
        /\ last.err # ""
        /\ signatures = last.signatures0

(* What Sign and Pull do with a cancelled context: no helper is ever       *)
(* signaled, the output of each is read to its end, and the operation      *)
(* fails, with the index as it was, only where it fails without the        *)
(* cancellation too or the store refuses the write.                        *)
CancellationNotPassedOn ==
    /\ \A pr \in PubProcs : ~pub[pr].signaled
    /\ CancelledWhileHelperRan =>
          /\ ~last.signaled
          /\ last.err # "" => signatures = last.signatures0
          /\ last.err = "" =>
                signatures[last.id] = (IF last.op = "Sign" THEN last.res ELSE last.signature)

-----------------------------------------------------------------------------
(* The record of the merge of the source and the destination of the Merge  *)
(* on record, if the store has one.                                        *)
MergeRecords ==
    {h \in FileHashes(objects) :
        ReadSnapshot(objects, h).parents = <<last.src, last.destPrev>>}

(* C29. Fast-forward: when the snapshot of an existing destination is a    *)
(* proper ancestor of the source, Merge checks out the source itself at    *)
(* the destination and stores no File record of a merge; when the source   *)
(* is the snapshot of the destination or an ancestor of it, Merge returns  *)
(* success and leaves the destination as it was.                           *)
C29_FastForward ==
    (last.op = "Merge" /\ last.destPrev # Nil /\ last.src # Nil) =>
        /\ last.destPrev \in ProperAncestors(objects, last.src) =>
              /\ Base(objects, last.src, last.destPrev) = last.destPrev
              /\ last.branch = "merged"
              /\ ~last.err
              /\ last.result = last.src
              /\ latest[last.dest] = last.src
              /\ Describes(objects, last.src, fs, last.dest)
              /\ MergeRecords = {}
        /\ last.src \in AncestorSet(objects, last.destPrev) =>
              /\ last.branch = "merged already"
              /\ ~last.err
              /\ ~last.removed
              /\ \A q \in Paths : fs[q] = last.fs0[q]
              /\ latest[last.dest] = last.destPrev

(* A destination taken from the source's log is brought forward to a later *)
(* snapshot of the source: the files changed with it.                      *)
C29_Witness ==
    /\ last.op = "Merge"
    /\ last.destPrev # Nil
    /\ last.destPrev \in ProperAncestors(objects, last.src)
    /\ last.branch = "merged"
    /\ last.removed
    /\ last.result = last.src
    /\ \E q \in Under(last.dest) : fs[q] # last.fs0[q]

-----------------------------------------------------------------------------
(* The tree of a snapshot in the merge on record: no names for nil, for a  *)
(* snapshot that is no directory or for one without readable contents.     *)
SideTree(h) ==
    IF h = Nil THEN EmptyTree
    ELSE LET f == ReadSnapshot(last.objects0, h)
         IN  IF IsDir(f) /\ f.contents # Nil /\ TreeReadable(last.objects0, f)
             THEN ListDirectorySnapshotContents(last.objects0, f)
             ELSE EmptyTree

(* The merges of the child n made by the merge on record. *)
MergesOf(n) ==
    {i \in 1..Len(last.tried) : last.tried[i].path = Join(last.subPath, n)}

(* The merge on record came to merge the child n of the two directories. *)
ChildMerged(n) == last.op = "mergeWithBase" /\ MergesOf(n) # {}

(* C30. One-sided changes in a directory merge: a child that is absent on  *)
(* one side and is the base's child on the other is left out of the merged *)
(* Tree without error (the deletion wins); a child absent in the base and  *)
(* on one side is in the merged Tree with the snapshot of the other side   *)
(* (the addition wins); and a name is in the merged Tree only if the merge *)
(* of the child returned a snapshot.                                       *)
C30_OneSidedChanges ==
    \A n \in Names :
        ChildMerged(n) =>
            LET b == TreeGet(SideTree(last.base), n)
                s == TreeGet(SideTree(last.src), n)
                d == TreeGet(SideTree(last.dest), n)
                t == last.tried[CHOOSE i \in MergesOf(n) : TRUE]
                merged == last.err = <<>>
            IN  /\ Cardinality(MergesOf(n)) = 1
                /\ ((s = Nil /\ d # Nil /\ d = b) \/ (d = Nil /\ s # Nil /\ s = b)) =>
                      /\ t.h = Nil
                      /\ t.err = <<>>
                      /\ merged => n \notin DOMAIN last.tree
                /\ (b = Nil /\ s = Nil /\ d # Nil) =>
                      /\ t.h = d
                      /\ t.err = <<>>
                      /\ merged => (n \in DOMAIN last.tree /\ last.tree[n] = d)
                /\ (b = Nil /\ d = Nil /\ s # Nil) =>
                      /\ t.h = s
                      /\ t.err = <<>>
                      /\ merged => (n \in DOMAIN last.tree /\ last.tree[n] = s)
                /\ merged => (n \in DOMAIN last.tree <=> t.h # Nil)
                /\ (merged /\ n \in DOMAIN last.tree) => last.tree[n] = t.h

(* A merge that succeeded with a file deleted on one side and unchanged on *)
(* the other, and a file only one side has: the merged Tree has the second *)
(* and not the first.                                                      *)
C30_Witness ==
    /\ last.op = "mergeWithBase"
    /\ last.err = <<>>
    /\ last.h # Nil
    /\ \E n, k \in Names :
          /\ n # k
          /\ ChildMerged(n) /\ ChildMerged(k)
          /\ TreeGet(SideTree(last.src), n) = Nil
          /\ TreeGet(SideTree(last.dest), n) # Nil
          /\ TreeGet(SideTree(last.dest), n) = TreeGet(SideTree(last.base), n)
          /\ TreeGet(SideTree(last.base), k) = Nil
          /\ TreeGet(SideTree(last.dest), k) = Nil
          /\ TreeGet(SideTree(last.src), k) # Nil
          /\ DOMAIN last.tree = {k}
          /\ Len(ReadSnapshot(objects, last.h).parents) = 2

====
